---- MODULE Spec2Model ----
(***************************************************************************)
(* Least Count host (least_count_host.py): the authoritative table state,  *)
(* the turn / round state machine, the connection registry and the event   *)
(* queue drained by the main loop.                                         *)
(*                                                                         *)
(* Cards are the program's string tokens ("10H", "ZB").  Indices that the  *)
(* program keeps (current_turn_idx, the idx of a turn_open_discard entry)  *)
(* are 0-based as in the source; TLA+ sequences are 1-based, so element i  *)
(* of a Python list l is l[i + 1] here.                                    *)
(***************************************************************************)
EXTENDS Integers, Sequences, FiniteSets, Bags, TLC

VARIABLES
    state,              \* UI state: "menu" | "lobby" | "playing"
    max_points_out,     \* configured elimination threshold
    connections,        \* pids with a socket in the registry
    reading,            \* pids whose recv_loop thread is still running
    incoming,           \* the event queue, FIFO: records [pid, action, card, n]
    next_pid,           \* accept_loop's next player id
    player_order,       \* configured seating order
    dealer_pid,
    game_started,
    scores_total,       \* pid -> cumulative score
    eliminated,
    round_no,
    round_over,
    match_over,
    match_winner,
    match_end_reason,
    round_history,
    deck,               \* the shoe, consumed from the end
    discard_pile,       \* top = last element
    hands,              \* pid -> list of cards
    turn_order,
    current_turn_idx,   \* 0-based
    turn_phase,         \* pid -> "discard" | "draw"
    show_available,     \* pid -> BOOLEAN
    turn_open_discard,  \* pid -> [idx, card] (0-based idx); absent key = no memo
    joker_card,
    joker_rank,
    last_update,        \* the state_msg of the latest broadcast_state()
    last_event,         \* the latest step of the host process, and whether it acted
    requests,           \* number of turn requests accepted so far (bounds the run)
    deals,              \* number of rounds dealt so far (bounds the run)
    matches,            \* number of matches started so far (bounds the run)
    clicks,             \* number of lobby row clicks so far (bounds the run)
    turn_begin,         \* history of the current turn: its holder, the top of the
                        \* discard pile when it began, the cards thrown in it so far
    sent,               \* the messages the latest step wrote to sockets, in order
    nsent,              \* pid -> number of requests p's reader has put on the queue
    done,               \* pid -> number of the latest request of p the loop dequeued
    round_start,        \* the dealer and the seating order of the latest deal
    running,            \* the main loop is running (`while running:`)
    steps               \* number of steps taken so far (bounds the run)

vars == <<state, max_points_out, connections, reading, incoming, next_pid,
          player_order, dealer_pid, game_started, scores_total, eliminated,
          round_no, round_over, match_over, match_winner, match_end_reason,
          round_history, deck, discard_pile, hands, turn_order,
          current_turn_idx, turn_phase, show_available, turn_open_discard,
          joker_card, joker_rank, last_update, last_event, requests, deals, matches,
          clicks, turn_begin, sent, nsent, round_start, running, done, steps>>

(***************************************************************************)
(* Bounds of the model.                                                    *)
(***************************************************************************)
MaxRemote == 2          \* connections accepted (pids 2 .. MaxRemote + 1)
MaxRounds == 2          \* rounds dealt in a run (in one match or in several)
MaxRequests == 3        \* accepted discard / draw requests in a run
MaxDepartures == 1      \* clients that close or exit of their own accord
MaxMatches == 1         \* matches started in a run
MaxClicks == 1          \* dealer / order clicks on the lobby rows in a run
MaxSends == 4           \* requests the readers put on the queue in a run (SpecQ)
MaxQueue == 2           \* events waiting on the queue when a reader adds one (SpecQ)
MaxSteps == 8           \* steps of the main loop and of the reader and accept threads in a run

(***************************************************************************)
(* Program constants.                                                      *)
(***************************************************************************)
HOST_ID == 1
HAND_SIZE == 7
SHOW_LIMIT == 8
SHOW_PENALTY == 40
HISTORY_SENT == 50
DEFAULT_MAX_POINTS == 200

\* Python's None: for a card, face or reason (strings), for a player id, for a snapshot
None == "None"
NoPid == 0
NoUpdate == [sent |-> FALSE]
NoRound == [dealer |-> NoPid, order |-> <<>>]
NoTurn == [pid |-> NoPid, top |-> None, at |-> 0, thrown |-> <<>>]

\* The value the host types into the "Out after points >" box; 0 keeps the default.
MaxPointsChoices == {9}

(***************************************************************************)
(* Generic list helpers (Python list semantics).                           *)
(***************************************************************************)
Range(s) == {s[i] : i \in 1..Len(s)}

\* s[-n:]
LastN(s, n) == IF Len(s) <= n THEN s ELSE SubSeq(s, Len(s) - n + 1, Len(s))

Last(s) == s[Len(s)]

\* l.pop(i) for a 0-based i: the list without that element.
PopAt(s, i) == SubSeq(s, 1, i) \o SubSeq(s, i + 2, Len(s))

\* faulty variant: the comprehension keeps every element
FilterInAll(s, keep) == s

\* [x for x in s if x in keep]
RECURSIVE FilterIn(_, _)
FilterIn(s, keep) ==
    IF s = <<>> THEN <<>>
    ELSE (IF Head(s) \in keep THEN <<Head(s)>> ELSE <<>>) \o FilterIn(Tail(s), keep)

\* l.index(x), 0-based; x is in l.
IndexOf(s, x) == (CHOOSE i \in 1..Len(s) : s[i] = x /\ \A j \in 1..(i - 1) : s[j] # x) - 1

RECURSIVE Reverse(_)
Reverse(s) == IF s = <<>> THEN <<>> ELSE Reverse(Tail(s)) \o <<Head(s)>>

RECURSIVE SumOver(_, _)
SumOver(f, S) ==
    IF S = {} THEN 0
    ELSE LET x == CHOOSE y \in S : TRUE IN f[x] + SumOver(f, S \ {x})

\* the list s as a bag of its elements
RECURSIVE SliceBag(_, _, _)
SliceBag(s, lo, hi) ==
    IF lo > hi THEN EmptyBag
    ELSE IF lo = hi THEN SetToBag({s[lo]})
    ELSE SliceBag(s, lo, (lo + hi) \div 2) (+) SliceBag(s, (lo + hi) \div 2 + 1, hi)

SeqBag(s) == SliceBag(s, 1, Len(s))

(***************************************************************************)
(* Deck & scoring engine.                                                  *)
(***************************************************************************)
Values == <<"2", "3", "4", "5", "6", "7", "8", "9", "10", "J", "Q", "K", "A">>
Suits == <<"S", "C", "D", "H">>
JokerTokens == {"ZB", "ZR"}

\* len(single)
DECK_CARDS == Len(Values) * Len(Suits) + 2

\* single = [f"{v}{s}" for v in values for s in suits] + ["ZB", "ZR"]
Single ==
    [i \in 1..DECK_CARDS |->
        IF i <= Len(Values) * Len(Suits)
        THEN Values[((i - 1) \div Len(Suits)) + 1] \o Suits[((i - 1) % Len(Suits)) + 1]
        ELSE IF i = DECK_CARDS - 1 THEN "ZB" ELSE "ZR"]

\* single * max(1, int(num_decks))
RECURSIVE Repeat(_, _)
Repeat(s, n) == IF n <= 1 THEN s ELSE s \o Repeat(s, n - 1)

\* card[:-1] if len(card) > 1 else card   (every token has two or more characters)
FaceTable ==
    [c \in Range(Single) |->
        CHOOSE p \in Range(Values) \cup {"Z"} :
            \E ch \in Range(Suits) \cup {"B", "R"} : p \o ch = c]
Face(card) == FaceTable[card]

\* prev_top[:-1] if prev_top and prev_top not in ("ZB", "ZR") else prev_top
PrevTopFace(prev_top) ==
    IF prev_top # None /\ prev_top \notin JokerTokens THEN Face(prev_top) ELSE prev_top

\* joker_rank derived from joker_card in start_round
JokerRankOf(card) ==
    IF card = None THEN None
    ELSE IF card \notin JokerTokens THEN Face(card) ELSE card

\* int(face) for the numeric faces
IntOfFace(face) == (CHOOSE i \in 1..9 : Values[i] = face) + 1

card_points(card, jrank) ==
    LET face == Face(card) IN
    IF (jrank # None /\ face = jrank) \/ card \in JokerTokens THEN 0
    ELSE IF face = "A" THEN 1
    ELSE IF face \in {"J", "Q", "K"} THEN 10
    ELSE IntOfFace(face)

RECURSIVE SumPoints(_, _)
SumPoints(hand, jrank) ==
    IF hand = <<>> THEN 0 ELSE card_points(Head(hand), jrank) + SumPoints(Tail(hand), jrank)

\* hand_total(pid) under the hands h and the joker rank jrank
HandTotalOf(h, pid, jrank) == IF pid \in DOMAIN h THEN SumPoints(h[pid], jrank) ELSE 0

hand_total(pid) == HandTotalOf(hands, pid, joker_rank)

\* card_sort_key(card) -> (rank, suit)
SortRank(card, jrank) ==
    LET face == Face(card) IN
    IF (jrank # None /\ face = jrank) \/ card \in JokerTokens THEN 0
    ELSE IF face = "A" THEN 1
    ELSE IF face = "J" THEN 11
    ELSE IF face = "Q" THEN 12
    ELSE IF face = "K" THEN 13
    ELSE IntOfFace(face)

SortSuit(card, jrank) ==
    LET face == Face(card) IN
    IF (jrank # None /\ face = jrank) \/ card \in JokerTokens THEN 0
    ELSE (CHOOSE i \in 1..Len(Suits) : face \o Suits[i] = card) - 1

\* key(a) <= key(b), tuples compared lexicographically
KeyLeq(a, b, jrank) ==
    \/ SortRank(a, jrank) < SortRank(b, jrank)
    \/ /\ SortRank(a, jrank) = SortRank(b, jrank)
       /\ SortSuit(a, jrank) <= SortSuit(b, jrank)

\* insert c after every element whose key is <= key(c): a stable insertion
RECURSIVE InsertSorted(_, _, _)
InsertSorted(s, c, jrank) ==
    IF s = <<>> THEN <<c>>
    ELSE IF KeyLeq(Head(s), c, jrank) THEN <<Head(s)>> \o InsertSorted(Tail(s), c, jrank)
    ELSE <<c>> \o s

\* sorted(hand, key=card_sort_key): stable
RECURSIVE SortedHand(_, _)
SortedHand(hand, jrank) ==
    IF hand = <<>> THEN <<>>
    ELSE InsertSorted(SortedHand(SubSeq(hand, 1, Len(hand) - 1), jrank), Last(hand), jrank)

\* faulty variant: two decks whatever the number of players
NumDecksAlwaysTwo(n_players) == 2

num_decks_for_players(n_players) ==
    IF n_players < 5 THEN 2
    ELSE IF n_players <= 6 THEN 3
    ELSE 4

(***************************************************************************)
(* Dictionaries (Python dict semantics on TLA+ functions).                 *)
(***************************************************************************)
EmptyMap == [x \in {} |-> None]

Put(f, k, v) == [x \in DOMAIN f \cup {k} |-> IF x = k THEN v ELSE f[x]]

Del(f, k) == [x \in DOMAIN f \ {k} |-> f[x]]

\* sorted(S) for a set of integers
RECURSIVE SortedSeq(_)
SortedSeq(S) ==
    IF S = {} THEN <<>>
    ELSE LET m == CHOOSE x \in S : \A y \in S : x <= y IN <<m>> \o SortedSeq(S \ {m})

(***************************************************************************)
(* build_deck: the shoe.  random.shuffle may return any order; the model   *)
(* draws the order from ShuffleTops: the cards named there come off the    *)
(* shoe first, in that order, and the other cards of the shoe follow.      *)
(***************************************************************************)
ShuffleTops ==
    << <<"KS",
         "AS", "AC", "AD", "2S", "2C", "KC", "KD",
         "AH", "AS", "AC", "2D", "KH", "KD", "KC",
         "AD", "AH", "3S", "KH", "KS", "ZB", "ZR",
         "2H", "2H", "2D", "2S", "ZB", "ZR", "3C">>,
       <<"KS",
         "AS", "2S", "KC", "KD", "KH", "ZB", "ZR",
         "3S", "3C", "3D", "KC", "KD", "KH", "ZB",
         "2C", "2D", "2H", "2S", "AC", "AD", "KS">>,
       <<"2S",
         "KS", "KC", "KD", "KH", "KS", "KC", "KD",
         "3S", "4S", "5S", "6S", "7S", "8S", "9S",
         "3C", "4C", "5C", "6C", "7C", "8C", "9C",
         "KH">> >>

\* the shuffles the general specifications draw from, and the one that deals a
\* hand of one face under a top card of that face (SpecRun)
Shuffles == {1, 2}
RunShuffles == {3}

RemoveFirst(s, c) ==
    IF c \in Range(s) THEN PopAt(s, IndexOf(s, c)) ELSE s

\* the permutation of d that pops top[i], top[i + 1], ... first
RECURSIVE Stacked(_, _, _)
Stacked(d, top, i) ==
    IF i > Len(top) THEN d
    ELSE IF top[i] \in Range(d)
         THEN Stacked(RemoveFirst(d, top[i]), top, i + 1) \o <<top[i]>>
         ELSE Stacked(d, top, i + 1)

\* the shoes of every deck count and shuffle, computed once
ShoeTable ==
    [n \in 1..4 |-> [k \in 1..Len(ShuffleTops) |-> Stacked(Repeat(Single, n), ShuffleTops[k], 1)]]

build_deck(num_decks, k) == ShoeTable[num_decks][k]

(***************************************************************************)
(* Roster.                                                                 *)
(***************************************************************************)
\* sync_player_order: the new player_order
SyncOrder(po, conns) ==
    LET current == {HOST_ID} \cup conns
        pruned == FilterIn(po, current)
        withHost == IF HOST_ID \notin Range(pruned) THEN <<HOST_ID>> \o pruned ELSE pruned
    IN withHost \o SortedSeq(current \ Range(withHost))

\* sync_player_order: the new dealer_pid
SyncDealer(dp, po) == IF dp \notin Range(po) THEN po[1] ELSE dp

\* the players of the order po that are in the set act, in that order
ActiveIn(po, act) == SelectSeq(po, LAMBDA q : q \in act)

\* faulty variant: eliminated players count as active
ActivePlayersAll(st, elim) == SortedSeq(DOMAIN st)

\* active_players(): sorted ids of scores_total that are not eliminated
ActivePlayersOf(st, elim) == SortedSeq(DOMAIN st \ elim)

active_players == ActivePlayersOf(scores_total, eliminated)

(***************************************************************************)
(* Turn state machine helpers.                                             *)
(***************************************************************************)
TurnHolder == IF turn_order # <<>> THEN turn_order[current_turn_idx + 1] ELSE NoPid

PhaseOf(pid) == IF pid \in DOMAIN turn_phase THEN turn_phase[pid] ELSE "discard"

ShowAvail(pid) == IF pid \in DOMAIN show_available THEN show_available[pid] ELSE FALSE

\* the 0-based index take_open_discard_for_turn pops (the pile is not empty)
TakeIndex(pile, tod, pid) ==
    LET has == pid \in DOMAIN tod
        idx == IF has THEN tod[pid].idx ELSE -1
        ref == IF has THEN tod[pid].card ELSE None
    IN IF has /\ 0 <= idx /\ idx < Len(pile) /\ pile[idx + 1] = ref
       THEN idx
       ELSE IF has /\ \E j \in 1..Len(pile) : pile[j] = ref
            THEN (CHOOSE j \in 1..Len(pile) :
                     pile[j] = ref /\ \A m \in (j + 1)..Len(pile) : pile[m] # ref) - 1
            ELSE Len(pile) - 1

take_open_discard_for_turn(pile, tod, pid) == TakeIndex(pile, tod, pid)

\* faulty variant: the new holder's memo is dropped, as on an empty pile
NextTurnNoMemo(to, idx, sa, tod, pile) ==
    IF to # <<>>
    THEN LET nidx == (idx + 1) % Len(to)
             pid == to[nidx + 1]
         IN [idx |-> nidx,
             sa |-> Put(sa, pid, TRUE),
             tod |-> Del(tod, pid)]
    ELSE [idx |-> idx, sa |-> sa, tod |-> tod]

\* faulty variant: the new holder is not given the right to show
NextTurnNoShow(to, idx, sa, tod, pile) ==
    IF to # <<>>
    THEN LET nidx == (idx + 1) % Len(to)
             pid == to[nidx + 1]
         IN [idx |-> nidx,
             sa |-> sa,
             tod |-> IF pile # <<>>
                     THEN Put(tod, pid, [idx |-> Len(pile) - 1, card |-> Last(pile)])
                     ELSE Del(tod, pid)]
    ELSE [idx |-> idx, sa |-> sa, tod |-> tod]

\* next_turn(): the new current_turn_idx, show_available and turn_open_discard
next_turn(to, idx, sa, tod, pile) ==
    IF to # <<>>
    THEN LET nidx == (idx + 1) % Len(to)
             pid == to[nidx + 1]
         IN [idx |-> nidx,
             sa |-> Put(sa, pid, TRUE),
             tod |-> IF pile # <<>>
                     THEN Put(tod, pid, [idx |-> Len(pile) - 1, card |-> Last(pile)])
                     ELSE Del(tod, pid)]
    ELSE [idx |-> idx, sa |-> sa, tod |-> tod]

\* the cards a discard of `card` removes, in hand order, and the cards it leaves
\* faulty variant: the first card of the face alone is removed
SameFaceFirst(hand, face) ==
    LET all == IF hand = <<>> THEN <<>> ELSE SelectSeq(hand, LAMBDA c : Face(c) = face)
    IN IF all = <<>> THEN <<>> ELSE <<Head(all)>>

SameFace(hand, face) ==
    IF hand = <<>> THEN <<>> ELSE SelectSeq(hand, LAMBDA c : Face(c) = face)

OtherFace(hand, face) ==
    IF hand = <<>> THEN <<>> ELSE SelectSeq(hand, LAMBDA c : Face(c) # face)

\* the history of a turn of pid that begins on the discard pile `pile`
TurnBegun(pid, pile) ==
    [pid |-> pid, top |-> IF pile # <<>> THEN Last(pile) ELSE None, at |-> Len(pile),
     thrown |-> <<>>]

\* faulty variant: the test compares the whole tokens
IsChainSameToken(prev_top, card) == prev_top # None /\ prev_top = card

\* faulty variant: "or" in place of "and"
IsChainOr(prev_top, card) == PrevTopFace(prev_top) # None \/ PrevTopFace(prev_top) = Face(card)

\* the discard-chain test of the discard handlers
IsChain(prev_top, card) == PrevTopFace(prev_top) # None /\ PrevTopFace(prev_top) = Face(card)

(***************************************************************************)
(* broadcast_state: the snapshot.                                          *)
(***************************************************************************)
StateMsg ==
    LET current_pid == TurnHolder IN
    [discard_top |-> IF discard_pile # <<>> THEN Last(discard_pile) ELSE None,
     turn |-> current_pid,
     turn_phase |-> IF current_pid # NoPid THEN PhaseOf(current_pid) ELSE "discard",
     show_enabled |-> IF current_pid # NoPid THEN ShowAvail(current_pid) ELSE FALSE,
     pick_discard_card |->
        IF current_pid # NoPid /\ current_pid \in DOMAIN turn_open_discard
        THEN turn_open_discard[current_pid].card ELSE None,
     deck_count |-> Len(deck),
     players |-> turn_order,
     hand_counts |-> [p \in Range(turn_order) |-> IF p \in DOMAIN hands THEN Len(hands[p]) ELSE 0],
     match_over |-> match_over,
     match_winner |-> match_winner,
     round_history |-> LastN(round_history, HISTORY_SENT),
     match_end_reason |-> match_end_reason,
     dealer_pid |-> dealer_pid,
     scores_total |-> scores_total,
     eliminated |-> eliminated,
     round_no |-> round_no,
     joker_card |-> joker_card,
     joker_rank |-> joker_rank,
     round_over |-> round_over,
     max_points_out |-> max_points_out]

(***************************************************************************)
(* Messages to clients.  `sent` lists what a step passes to send_json, in  *)
(* the order of the calls; a send to a socket whose peer is gone raises    *)
(* and is swallowed.  connections is a dict filled in pid order, so a loop *)
(* over it visits the pids in ascending order.  player_names and the port  *)
(* are not modelled.                                                       *)
(***************************************************************************)
\* the concatenation of the lists of a list
RECURSIVE Flat(_)
Flat(ss) == IF ss = <<>> THEN <<>> ELSE Head(ss) \o Flat(Tail(ss))

\* one message for every connection of conns: Msg(pid) is the message without its "to"
ToAll(conns, Msg(_)) ==
    LET order == SortedSeq(conns)
    IN [i \in 1..Len(order) |-> [to |-> order[i]] @@ Msg(order[i])]

\* hands.get(pid, [])
HandOf(h, pid) == IF pid \in DOMAIN h THEN h[pid] ELSE <<>>

\* faulty variant: the connection with the highest id gets the snapshot before last
BroadcastStateLagging(conns, msg) ==
    ToAll(conns, LAMBDA p : [action |-> "update",
                             state |-> IF Cardinality(conns) >= 2
                                          /\ \A q \in conns : q <= p
                                          /\ last_update # NoUpdate
                                       THEN last_update ELSE msg])

\* faulty variant: the hand sent is the hand of the host
SendHandOfHost(conns, h, pid) ==
    IF pid = HOST_ID \/ pid \notin conns THEN <<>>
    ELSE <<[to |-> pid, action |-> "hand", hand |-> HandOf(h, HOST_ID)]>>

\* send_hand(pid): nothing for the host and for a pid without a connection
send_hand(conns, h, pid) ==
    IF pid = HOST_ID \/ pid \notin conns THEN <<>>
    ELSE <<[to |-> pid, action |-> "hand", hand |-> HandOf(h, pid)]>>

\* broadcast_state() of the snapshot msg
broadcast_state(conns, msg) ==
    ToAll(conns, LAMBDA p : [action |-> "update", state |-> msg])

\* broadcast_lobby()
broadcast_lobby(conns, dp, po, mpo) ==
    ToAll(conns, LAMBDA p : [action |-> "lobby", players |-> {HOST_ID} \cup conns,
                             config |-> [max_points_out |-> mpo,
                                         hand_size |-> HAND_SIZE],
                             dealer_pid |-> dp, player_order |-> po])

\* start_round's "Inform clients" loop: the start message, then the hand
inform_clients(conns, h, dp) ==
    LET order == SortedSeq(conns)
    IN Flat([i \in 1..Len(order) |->
               <<[to |-> order[i], action |-> "start",
                  rules |-> [hand_size |-> HAND_SIZE, show_limit |-> SHOW_LIMIT,
                             show_penalty |-> SHOW_PENALTY,
                             max_points_out |-> max_points_out,
                             discard_first |-> TRUE, dealer_pid |-> dp]]>>
               \o send_hand(conns, h, order[i])])

\* the round_end notice
round_end(conns, summary) ==
    ToAll(conns, LAMBDA p : [action |-> "round_end", summary |-> summary])

\* faulty variant: the connection with the lowest id is not told
MatchEndSkipsOne(conns, winner, reason, st) ==
    ToAll(conns \ {p \in conns : \A q \in conns : p <= q},
          LAMBDA p : [action |-> "match_end", winner |-> winner, reason |-> reason,
                      scores_total |-> st])

\* the match_end notice
match_end(conns, winner, reason, st) ==
    ToAll(conns, LAMBDA p : [action |-> "match_end", winner |-> winner, reason |-> reason,
                             scores_total |-> st])

(***************************************************************************)
(* Variable groups.                                                        *)
(***************************************************************************)
netVars == <<connections, reading, incoming, next_pid>>
seatVars == <<player_order, dealer_pid>>
matchVars == <<game_started, scores_total, eliminated, round_no, round_over,
               match_over, match_winner, match_end_reason, round_history>>
pileVars == <<deck, discard_pile, hands, joker_card, joker_rank>>
turnVars == <<turn_order, current_turn_idx, turn_phase, show_available, turn_open_discard>>

\* faulty variant: the newest event is taken first
GetNewest(q) == [event |-> q[Len(q)], rest |-> SubSeq(q, 1, Len(q) - 1)]

\* incoming.get_nowait() on a queue that is not empty: the event taken, the queue left
get_nowait(q) == [event |-> Head(q), rest |-> Tail(q)]

\* The synthetic event of recv_loop's finally clause and of the exit handler; n is 0
\* for an event no client sent.
Disconnect(p) == [pid |-> p, action |-> "disconnect", card |-> None, n |-> 0]

\* Clients that left of their own accord (closed the socket or sent exit).
Departed == (2..(next_pid - 1)) \ (reading \cap connections)

(***************************************************************************)
(* Init: the module-level state of least_count_host.py.                    *)
(***************************************************************************)
Init ==
    /\ state = "menu"
    /\ max_points_out = DEFAULT_MAX_POINTS
    /\ connections = {}
    /\ reading = {}
    /\ incoming = <<>>
    /\ next_pid = 2
    /\ player_order = <<HOST_ID>>
    /\ dealer_pid = HOST_ID
    /\ game_started = FALSE
    /\ scores_total = [p \in {HOST_ID} |-> 0]
    /\ eliminated = {}
    /\ round_no = 0
    /\ round_over = FALSE
    /\ match_over = FALSE
    /\ match_winner = NoPid
    /\ match_end_reason = None
    /\ round_history = <<>>
    /\ deck = <<>>
    /\ discard_pile = <<>>
    /\ hands = [p \in {HOST_ID} |-> <<>>]
    /\ turn_order = <<>>
    /\ current_turn_idx = 0
    /\ turn_phase = EmptyMap
    /\ show_available = EmptyMap
    /\ turn_open_discard = EmptyMap
    /\ joker_card = None
    /\ joker_rank = None
    /\ last_update = NoUpdate
    /\ last_event = [action |-> "init", pid |-> HOST_ID, acted |-> FALSE]
    /\ requests = 0
    /\ deals = 0
    /\ matches = 0
    /\ clicks = 0
    /\ turn_begin = NoTurn
    /\ sent = <<>>
    /\ nsent = EmptyMap
    /\ round_start = NoRound
    /\ running = TRUE
    /\ steps = 0
    /\ done = EmptyMap

(***************************************************************************)
(* Menu: "Create Lobby" applies the configured threshold.                  *)
(***************************************************************************)
CreateLobby(val) ==
    /\ running
    /\ steps < MaxSteps
    /\ steps' = steps + 1
    /\ incoming = <<>>
    /\ state = "menu"
    /\ max_points_out' = IF val <= 0 THEN DEFAULT_MAX_POINTS ELSE val
    /\ state' = "lobby"
    /\ last_event' = [action |-> "create_lobby", pid |-> HOST_ID, acted |-> TRUE]
    /\ sent' = broadcast_lobby(connections, dealer_pid, player_order, max_points_out')
    /\ UNCHANGED <<netVars, seatVars, matchVars, pileVars, turnVars, last_update, requests, deals, matches, clicks, nsent, round_start, running, done, turn_begin>>

(***************************************************************************)
(* accept_loop: one accepted connection.                                   *)
(***************************************************************************)
accept_loop ==
    /\ running
    /\ steps < MaxSteps
    /\ steps' = steps + 1
    /\ connections' = connections \cup {next_pid}
    /\ reading' = reading \cup {next_pid}
    /\ next_pid' = next_pid + 1
    /\ player_order' = SyncOrder(player_order, connections')
    /\ dealer_pid' = SyncDealer(dealer_pid, player_order')
    /\ nsent' = Put(nsent, next_pid, 0)
    /\ UNCHANGED <<round_start, running>>
    /\ done' = Put(done, next_pid, 0)
    /\ last_event' = [action |-> "accept", pid |-> next_pid, acted |-> TRUE]
    /\ sent' = <<[to |-> next_pid, action |-> "welcome", player_id |-> next_pid]>>
                \o broadcast_lobby(connections', dealer_pid', player_order', max_points_out)
    /\ UNCHANGED <<state, max_points_out, incoming, matchVars, pileVars, turnVars,
                   last_update, requests, deals, matches, clicks, turn_begin>>

\* one pass of accept_loop, while the run has connections to give
Accept == next_pid <= MaxRemote + 1 /\ accept_loop

\* one pass of accept_loop for a client that connects when a match is under way
\* and the lobby was full
JoinLate == game_started /\ next_pid = MaxRemote + 2 /\ accept_loop

(***************************************************************************)
(* recv_loop: end of stream or socket error; the reader enqueues the       *)
(* synthetic disconnect and ends.  A client may close at any time; a       *)
(* socket the host closed always ends its reader.                          *)
(***************************************************************************)
ReaderEOF(p) ==
    /\ running
    /\ steps < MaxSteps
    /\ steps' = steps + 1
    /\ p \in reading
    /\ p \notin connections \/ Cardinality(Departed) < MaxDepartures
    /\ reading' = reading \ {p}
    /\ incoming' = Append(incoming, Disconnect(p))
    /\ last_event' = [action |-> "eof", pid |-> p, acted |-> TRUE]
    /\ sent' = <<>>
    /\ UNCHANGED <<state, max_points_out, connections, next_pid, seatVars, matchVars,
                   pileVars, turnVars, last_update, requests, deals, matches, clicks, nsent, round_start, running, done,
                   turn_begin>>

(***************************************************************************)
(* Lobby: clicks on the rows of the seating list.                          *)
(***************************************************************************)
\* l[i], l[i + 1] = l[i + 1], l[i] for a 0-based i
SwapAt(l, i) ==
    [j \in 1..Len(l) |-> IF j = i + 1 THEN l[i + 2] ELSE IF j = i + 2 THEN l[i + 1] ELSE l[j]]

\* the "D" box of the row of pid
SetDealer(pid) ==
    /\ running
    /\ steps < MaxSteps
    /\ steps' = steps + 1
    /\ incoming = <<>>
    /\ state = "lobby"
    /\ clicks < MaxClicks
    /\ pid \in Range(SyncOrder(player_order, connections))
    /\ player_order' = SyncOrder(player_order, connections)
    /\ dealer_pid' = pid
    /\ clicks' = clicks + 1
    /\ last_event' = [action |-> "set_dealer", pid |-> HOST_ID, acted |-> TRUE]
    /\ sent' = broadcast_lobby(connections, dealer_pid', player_order', max_points_out)
    /\ UNCHANGED <<state, max_points_out, netVars, matchVars, pileVars, turnVars,
                   last_update, requests, deals, matches, turn_begin, nsent, round_start, running, done>>

\* the up arrow of row idx (0-based)
MoveUp(idx) ==
    /\ running
    /\ steps < MaxSteps
    /\ steps' = steps + 1
    /\ incoming = <<>>
    /\ state = "lobby"
    /\ clicks < MaxClicks
    /\ idx > 0 /\ idx < Len(SyncOrder(player_order, connections))
    /\ player_order' = SwapAt(SyncOrder(player_order, connections), idx - 1)
    /\ dealer_pid' = SyncDealer(dealer_pid, SyncOrder(player_order, connections))
    /\ clicks' = clicks + 1
    /\ last_event' = [action |-> "move_up", pid |-> HOST_ID, acted |-> TRUE]
    /\ sent' = broadcast_lobby(connections, dealer_pid', player_order', max_points_out)
    /\ UNCHANGED <<state, max_points_out, netVars, matchVars, pileVars, turnVars,
                   last_update, requests, deals, matches, turn_begin, nsent, round_start, running, done>>

\* the down arrow of row idx (0-based)
MoveDown(idx) ==
    /\ running
    /\ steps < MaxSteps
    /\ steps' = steps + 1
    /\ incoming = <<>>
    /\ state = "lobby"
    /\ clicks < MaxClicks
    /\ idx >= 0 /\ idx < Len(SyncOrder(player_order, connections)) - 1
    /\ player_order' = SwapAt(SyncOrder(player_order, connections), idx)
    /\ dealer_pid' = SyncDealer(dealer_pid, SyncOrder(player_order, connections))
    /\ clicks' = clicks + 1
    /\ last_event' = [action |-> "move_down", pid |-> HOST_ID, acted |-> TRUE]
    /\ sent' = broadcast_lobby(connections, dealer_pid', player_order', max_points_out)
    /\ UNCHANGED <<state, max_points_out, netVars, matchVars, pileVars, turnVars,
                   last_update, requests, deals, matches, turn_begin, nsent, round_start, running, done>>

(***************************************************************************)
(* start_round.                                                            *)
(***************************************************************************)
\* the next dealer after `cur` in player_order that is active (rounds after the first)
RECURSIVE RotateDealer(_, _, _, _, _)
RotateDealer(cur, po, active, n, orig) ==
    IF n = 0 THEN orig
    ELSE LET idx == IF cur \in Range(po) THEN (IndexOf(po, cur) + 1) % Len(po) ELSE 0
             cand == po[idx + 1]
         IN IF cand \in Range(active) THEN cand
            ELSE RotateDealer(cand, po, active, n - 1, orig)

NewDealer(rno, dp, po, active) ==
    IF rno = 1
    THEN (IF dp \notin Range(active) THEN active[1] ELSE dp)
    ELSE RotateDealer(dp, po, active, Len(po) + 1, dp)

\* faulty variant: the turn order starts from the dealer
NewTurnOrderFromDealer(active, dp) ==
    IF dp \in Range(active)
    THEN LET di == IndexOf(active, dp)
         IN SubSeq(active, di + 1, Len(active)) \o SubSeq(active, 1, di)
    ELSE active

\* turn order starts from the player after the dealer
NewTurnOrder(active, dp) ==
    IF dp \in Range(active)
    THEN LET di == IndexOf(active, dp)
         IN SubSeq(active, di + 2, Len(active)) \o SubSeq(active, 1, di + 1)
    ELSE active

\* hands[pid] = [deck.pop() for _ in range(HAND_SIZE)] for the i-th player (0-based)
DealtHand(d, i) == [j \in 1..HAND_SIZE |-> d[Len(d) - HAND_SIZE * i - (j - 1)]]

\* the deal of start_round for n players from shuffle k: the joker popped first, the
\* sorted hands in turn order, the seed of the discard pile, the rest of the shoe
Deal(n, k) ==
    LET d0 == build_deck(num_decks_for_players(n), k)
        jc == Last(d0)
        jr == JokerRankOf(jc)
        d1 == SubSeq(d0, 1, Len(d0) - 1)
        d2 == SubSeq(d1, 1, Len(d1) - HAND_SIZE * n)
    IN [joker_card |-> jc,
        joker_rank |-> jr,
        hands |-> [i \in 1..n |-> SortedHand(DealtHand(d1, i - 1), jr)],
        discard_pile |-> IF d2 # <<>> THEN <<Last(d2)>> ELSE <<>>,
        deck |-> IF d2 # <<>> THEN SubSeq(d2, 1, Len(d2) - 1) ELSE d2]

\* the deals of every table size and shuffle, computed once
TableSizes == 1..8

DealTable == [n \in TableSizes |-> [k \in 1..Len(ShuffleTops) |-> Deal(n, k)]]

\* start_round() on the match state (st, elim, rno, po, dp), shuffle k
start_round(k, st, elim, rno, po, dp) ==
    LET active_in_order == FilterIn(po, DOMAIN st \ elim) IN
    /\ round_over' = FALSE
    /\ round_no' = rno + 1
    /\ deals' = deals + 1
    /\ IF active_in_order = <<>>
       THEN /\ turn_open_discard' = EmptyMap
            /\ dealer_pid' = dp
            /\ sent' = <<>>
            /\ UNCHANGED <<pileVars, turn_order, current_turn_idx, turn_phase,
                           show_available, last_update, turn_begin, round_start, running>>
       ELSE LET ndp == NewDealer(rno + 1, dp, po, active_in_order)
                to == NewTurnOrder(active_in_order, ndp)
                deal == DealTable[Len(to)][k]
                pile == deal.discard_pile
            IN /\ dealer_pid' = ndp
               /\ round_start' = [dealer |-> ndp, order |-> po]
               /\ UNCHANGED running
               /\ turn_order' = to
               /\ deck' = deal.deck
               /\ discard_pile' = pile
               /\ current_turn_idx' = 0
               /\ turn_phase' = [p \in Range(to) |-> "discard"]
               /\ show_available' = [p \in Range(to) |-> p = to[1]]
               /\ joker_card' = deal.joker_card
               /\ joker_rank' = deal.joker_rank
               /\ hands' = [p \in DOMAIN hands \cup Range(to) |->
                              IF p \in Range(to)
                              THEN deal.hands[IndexOf(to, p) + 1]
                              ELSE hands[p]]
               /\ turn_open_discard' =
                     IF pile # <<>>
                     THEN [p \in {to[1]} |-> [idx |-> Len(pile) - 1, card |-> Last(pile)]]
                     ELSE EmptyMap
               /\ turn_begin' = TurnBegun(to[1], pile)
               /\ last_update' = StateMsg'
               /\ sent' = Flat([i \in 1..Len(to) |-> send_hand(connections, hands', to[i])])
                           \o inform_clients(connections, hands', ndp)
                           \o broadcast_state(connections, StateMsg')

\* "Start Game" in the lobby: start_match()
StartMatch(k) ==
    /\ running
    /\ steps < MaxSteps
    /\ steps' = steps + 1
    /\ incoming = <<>>
    /\ state = "lobby"
    /\ deals < MaxRounds
    /\ matches < MaxMatches
    /\ state' = "playing"
    /\ game_started' = TRUE
    /\ eliminated' = {}
    /\ round_history' = <<>>
    /\ match_over' = FALSE
    /\ match_winner' = NoPid
    /\ match_end_reason' = None
    /\ player_order' = SyncOrder(player_order, connections)
    /\ scores_total' = [p \in {HOST_ID} \cup connections |-> 0]
    /\ last_event' = [action |-> "start_match", pid |-> HOST_ID, acted |-> TRUE]
    /\ matches' = matches + 1
    /\ UNCHANGED <<max_points_out, netVars, requests, clicks, nsent, done>>
    /\ start_round(k, scores_total', {}, 0, player_order',
                   SyncDealer(dealer_pid, player_order'))

\* "Next Round" on the table
NextRound(k) ==
    /\ running
    /\ steps < MaxSteps
    /\ steps' = steps + 1
    /\ incoming = <<>>
    /\ state = "playing"
    /\ round_over /\ ~match_over
    /\ deals < MaxRounds
    /\ \E p \in Range(turn_order) : p \notin eliminated
    /\ last_event' = [action |-> "next_round", pid |-> HOST_ID, acted |-> TRUE]
    /\ UNCHANGED <<state, max_points_out, netVars, player_order, game_started,
                   scores_total, eliminated, match_over, match_winner,
                   match_end_reason, round_history, requests, matches, clicks, nsent, done>>
    /\ start_round(k, scores_total, eliminated, round_no, player_order, dealer_pid)

(***************************************************************************)
(* The turn actions: the bodies shared by the network handlers of the main *)
(* loop and the host's own mouse handlers.                                 *)
(***************************************************************************)
\* discard of `card` by the turn holder pid (the guards are the caller's)
ApplyDiscard(pid, card) ==
    LET prev_top == IF discard_pile # <<>> THEN Last(discard_pile) ELSE None
        face == Face(card)
        removed == SameFace(hands[pid], face)
        pile == discard_pile \o removed
        sa == Put(show_available, pid, FALSE)
    IN /\ hands' = [hands EXCEPT ![pid] = SortedHand(OtherFace(hands[pid], face), joker_rank)]
       /\ discard_pile' = pile
       /\ IF IsChain(prev_top, card)
          THEN LET nt == next_turn(turn_order, current_turn_idx, sa, turn_open_discard, pile)
               IN /\ turn_phase' = Put(turn_phase, pid, "discard")
                  /\ current_turn_idx' = nt.idx
                  /\ show_available' = nt.sa
                  /\ turn_open_discard' = nt.tod
                  /\ turn_begin' = TurnBegun(turn_order[nt.idx + 1], pile)
          ELSE /\ turn_phase' = Put(turn_phase, pid, "draw")
               /\ show_available' = sa
               /\ turn_begin' = [turn_begin EXCEPT !.thrown = removed]
               /\ UNCHANGED <<current_turn_idx, turn_open_discard>>
       /\ requests' = requests + 1
       /\ UNCHANGED <<deals, matches, clicks, nsent, round_start, running>>
       /\ UNCHANGED <<state, max_points_out, connections, reading, next_pid, seatVars,
                      matchVars, deck,
                      joker_card, joker_rank, turn_order>>
       /\ last_update' = StateMsg'
       /\ sent' = send_hand(connections, hands', pid)
                   \o broadcast_state(connections, StateMsg')

\* faulty variant: the card is read off the shoe and left there
ApplyDrawDeckKeepsShoe(pid) ==
    LET sa == Put(show_available, pid, FALSE)
        nt == next_turn(turn_order, current_turn_idx, sa, turn_open_discard, discard_pile)
    IN /\ hands' = [hands EXCEPT ![pid] = SortedHand(Append(hands[pid], Last(deck)), joker_rank)]
       /\ turn_phase' = Put(turn_phase, pid, "discard")
       /\ current_turn_idx' = nt.idx
       /\ show_available' = nt.sa
       /\ turn_open_discard' = nt.tod
       /\ turn_begin' = TurnBegun(turn_order[nt.idx + 1], discard_pile)
       /\ requests' = requests + 1
       /\ UNCHANGED <<deals, matches, clicks, nsent, round_start, running>>
       /\ UNCHANGED <<state, max_points_out, connections, reading, next_pid, seatVars,
                      matchVars, deck, discard_pile,
                      joker_card, joker_rank, turn_order>>
       /\ last_update' = StateMsg'
       /\ sent' = send_hand(connections, hands', pid)
                   \o broadcast_state(connections, StateMsg')

\* draw from the shoe by the turn holder pid (the shoe is not empty)
ApplyDrawDeck(pid) ==
    LET sa == Put(show_available, pid, FALSE)
        nt == next_turn(turn_order, current_turn_idx, sa, turn_open_discard, discard_pile)
    IN /\ hands' = [hands EXCEPT ![pid] = SortedHand(Append(hands[pid], Last(deck)), joker_rank)]
       /\ deck' = SubSeq(deck, 1, Len(deck) - 1)
       /\ turn_phase' = Put(turn_phase, pid, "discard")
       /\ current_turn_idx' = nt.idx
       /\ show_available' = nt.sa
       /\ turn_open_discard' = nt.tod
       /\ turn_begin' = TurnBegun(turn_order[nt.idx + 1], discard_pile)
       /\ requests' = requests + 1
       /\ UNCHANGED <<deals, matches, clicks, nsent, round_start, running>>
       /\ UNCHANGED <<state, max_points_out, connections, reading, next_pid, seatVars,
                      matchVars, discard_pile,
                      joker_card, joker_rank, turn_order>>
       /\ last_update' = StateMsg'
       /\ sent' = send_hand(connections, hands', pid)
                   \o broadcast_state(connections, StateMsg')

\* faulty variant: the memo's entry leaves the pile, the top card enters the hand
ApplyDrawDiscardTakesTop(pid) ==
    LET i == take_open_discard_for_turn(discard_pile, turn_open_discard, pid)
        card_to_take == Last(discard_pile)
        pile == PopAt(discard_pile, i)
        sa == Put(show_available, pid, FALSE)
        nt == next_turn(turn_order, current_turn_idx, sa, turn_open_discard, pile)
    IN /\ hands' = [hands EXCEPT ![pid] = SortedHand(Append(hands[pid], card_to_take), joker_rank)]
       /\ discard_pile' = pile
       /\ turn_phase' = Put(turn_phase, pid, "discard")
       /\ current_turn_idx' = nt.idx
       /\ show_available' = nt.sa
       /\ turn_open_discard' = nt.tod
       /\ turn_begin' = TurnBegun(turn_order[nt.idx + 1], pile)
       /\ requests' = requests + 1
       /\ UNCHANGED <<deals, matches, clicks, nsent, round_start, running>>
       /\ UNCHANGED <<state, max_points_out, connections, reading, next_pid, seatVars,
                      matchVars, deck,
                      joker_card, joker_rank, turn_order>>
       /\ last_update' = StateMsg'
       /\ sent' = send_hand(connections, hands', pid)
                   \o broadcast_state(connections, StateMsg')

\* draw from the discard pile by the turn holder pid (the pile is not empty)
ApplyDrawDiscard(pid) ==
    LET i == take_open_discard_for_turn(discard_pile, turn_open_discard, pid)
        card_to_take == discard_pile[i + 1]
        pile == PopAt(discard_pile, i)
        sa == Put(show_available, pid, FALSE)
        nt == next_turn(turn_order, current_turn_idx, sa, turn_open_discard, pile)
    IN /\ hands' = [hands EXCEPT ![pid] = SortedHand(Append(hands[pid], card_to_take), joker_rank)]
       /\ discard_pile' = pile
       /\ turn_phase' = Put(turn_phase, pid, "discard")
       /\ current_turn_idx' = nt.idx
       /\ show_available' = nt.sa
       /\ turn_open_discard' = nt.tod
       /\ turn_begin' = TurnBegun(turn_order[nt.idx + 1], pile)
       /\ requests' = requests + 1
       /\ UNCHANGED <<deals, matches, clicks, nsent, round_start, running>>
       /\ UNCHANGED <<state, max_points_out, connections, reading, next_pid, seatVars,
                      matchVars, deck,
                      joker_card, joker_rank, turn_order>>
       /\ last_update' = StateMsg'
       /\ sent' = send_hand(connections, hands', pid)
                   \o broadcast_state(connections, StateMsg')

(***************************************************************************)
(* resolve_show.                                                           *)
(***************************************************************************)
\* totals = {pid: hand_total(pid) for pid in turn_order}
Totals == [p \in Range(turn_order) |-> hand_total(p)]

\* other_has_same_or_less
OtherHasSameOrLess(totals, show_pid) ==
    \E p \in DOMAIN totals \ {show_pid} : totals[p] <= totals[show_pid]

\* min(others.values()) if others else show_total
MinOther(totals, show_pid) ==
    IF DOMAIN totals \ {show_pid} = {} THEN totals[show_pid]
    ELSE CHOOSE m \in {totals[p] : p \in DOMAIN totals \ {show_pid}} :
            \A p \in DOMAIN totals \ {show_pid} : m <= totals[p]

\* faulty variant: on a win the show player keeps the own total
RoundPointsWinnerKeeps(totals, show_pid) ==
    IF ~OtherHasSameOrLess(totals, show_pid)
    THEN [p \in DOMAIN totals |-> totals[p]]
    ELSE [p \in DOMAIN totals |->
            IF p = show_pid THEN SHOW_PENALTY
            ELSE IF totals[p] = MinOther(totals, show_pid) THEN 0 ELSE totals[p]]

\* faulty variant: on a penalty only the first player at the minimum scores 0
RoundPointsOneMin(totals, show_pid) ==
    IF ~OtherHasSameOrLess(totals, show_pid)
    THEN [p \in DOMAIN totals |-> IF p = show_pid THEN 0 ELSE totals[p]]
    ELSE LET first == CHOOSE q \in DOMAIN totals \ {show_pid} :
                         /\ totals[q] = MinOther(totals, show_pid)
                         /\ \A r \in DOMAIN totals \ {show_pid} :
                               totals[r] = MinOther(totals, show_pid) => q <= r
         IN [p \in DOMAIN totals |->
                IF p = show_pid THEN SHOW_PENALTY
                ELSE IF p = first THEN 0 ELSE totals[p]]

\* faulty variant: every player of the round is charged the penalty
RoundPointsAllPenalty(totals, show_pid) == [p \in DOMAIN totals |-> SHOW_PENALTY]

\* faulty variant: on a penalty the show player scores the own total as well
RoundPointsPenaltyPlusHand(totals, show_pid) ==
    IF ~OtherHasSameOrLess(totals, show_pid)
    THEN [p \in DOMAIN totals |-> IF p = show_pid THEN 0 ELSE totals[p]]
    ELSE [p \in DOMAIN totals |->
            IF p = show_pid THEN SHOW_PENALTY + totals[p]
            ELSE IF totals[p] = MinOther(totals, show_pid) THEN 0 ELSE totals[p]]

round_points(totals, show_pid) ==
    IF ~OtherHasSameOrLess(totals, show_pid)
    THEN [p \in DOMAIN totals |-> IF p = show_pid THEN 0 ELSE totals[p]]
    ELSE [p \in DOMAIN totals |->
            IF p = show_pid THEN SHOW_PENALTY
            ELSE IF totals[p] = MinOther(totals, show_pid) THEN 0 ELSE totals[p]]

show_outcome(totals, show_pid) ==
    IF ~OtherHasSameOrLess(totals, show_pid) THEN "win" ELSE "penalty"

\* faulty variant: a total that reaches the threshold is out
NewlyOutAtLimit(st, elim, limit) == {p \in DOMAIN st \ elim : st[p] >= limit}

\* the players a resolution eliminates: not yet eliminated, total > max_points_out
\* faulty variant: players that are out already are reported again
NewlyOutAgain(st, elim, limit) == {p \in DOMAIN st : st[p] > limit}

newly_out(st, elim, limit) == {p \in DOMAIN st \ elim : st[p] > limit}

\* faulty variant: the hand total is not tested
ShowRejectedNoLimit(show_pid) ==
    \/ round_over
    \/ show_pid \notin Range(turn_order)

\* resolve_show(show_pid) would return before changing anything
ShowRejected(show_pid) ==
    \/ round_over
    \/ show_pid \notin Range(turn_order)
    \/ hand_total(show_pid) > SHOW_LIMIT

resolve_show(show_pid) ==
    IF ShowRejected(show_pid)
    THEN /\ sent' = <<>>
         /\ UNCHANGED <<matchVars, last_update>>
    ELSE LET totals == Totals
             pts == round_points(totals, show_pid)
             st == [p \in DOMAIN scores_total |->
                      IF p \in DOMAIN pts THEN scores_total[p] + pts[p] ELSE scores_total[p]]
             elim == eliminated \cup newly_out(st, eliminated, max_points_out)
             remaining == ActivePlayersOf(st, elim)
         IN /\ scores_total' = st
            /\ eliminated' = elim
            /\ round_history' = Append(round_history,
                   [round_no |-> round_no, round_points |-> pts,
                    show_pid |-> show_pid, outcome |-> show_outcome(totals, show_pid)])
            /\ round_over' = TRUE
            /\ IF Len(remaining) = 1
               THEN /\ match_over' = TRUE
                    /\ match_winner' = remaining[1]
                    /\ match_end_reason' = "points"
                    /\ game_started' = FALSE
               ELSE UNCHANGED <<match_over, match_winner, match_end_reason, game_started>>
            /\ UNCHANGED round_no
            /\ last_update' = StateMsg'
            /\ sent' = (IF Len(remaining) = 1
                        THEN match_end(connections, remaining[1], "points", st)
                        ELSE round_end(connections,
                                       [round_no |-> round_no, show_pid |-> show_pid,
                                        show_total |-> totals[show_pid], totals |-> totals,
                                        round_points |-> pts, scores_total |-> st,
                                        eliminated |-> elim,
                                        outcome |-> show_outcome(totals, show_pid),
                                        newly_out |-> newly_out(st, eliminated,
                                                                max_points_out)]))
                        \o broadcast_state(connections, StateMsg')

(***************************************************************************)
(* Main loop: network events.  A request of player p is one that p's       *)
(* reader thread put on the queue, so p's reader has not ended yet.  The   *)
(* queue is FIFO and the loop drains it before it reads the host's mouse:  *)
(* `incoming` holds the queued disconnect events, a client request is      *)
(* drawn when it is dequeued, and a request that is dequeued while a       *)
(* disconnect is still queued is one that was queued ahead of it, which    *)
(* the model handles before that disconnect is enqueued.                   *)
(***************************************************************************)
\* is_turn and phase == ph and not round_over, after the game_started / turn_order tests
\* faulty variant: any seated player may act, not the turn holder alone
RemoteTurnAnyone(p, ph) ==
    /\ game_started
    /\ turn_order # <<>>
    /\ p \in Range(turn_order)
    /\ PhaseOf(p) = ph
    /\ ~round_over

\* faulty variant: the turn holder may act in either phase
RemoteTurnAnyPhase(p, ph) ==
    /\ game_started
    /\ turn_order # <<>>
    /\ p = turn_order[current_turn_idx + 1]
    /\ ~round_over

RemoteTurn(p, ph) ==
    /\ game_started
    /\ turn_order # <<>>
    /\ p = turn_order[current_turn_idx + 1]
    /\ PhaseOf(p) = ph
    /\ ~round_over

Discard(p, card) ==
    /\ running
    /\ steps < MaxSteps
    /\ steps' = steps + 1
    /\ incoming = <<>>
    /\ p \in reading
    /\ requests < MaxRequests
    /\ RemoteTurn(p, "discard")
    /\ p \in DOMAIN hands /\ card \in Range(hands[p])
    /\ last_event' = [action |-> "discard", pid |-> p, acted |-> TRUE]
    /\ UNCHANGED <<incoming, done>>
    /\ ApplyDiscard(p, card)

DrawDeck(p) ==
    /\ running
    /\ steps < MaxSteps
    /\ steps' = steps + 1
    /\ incoming = <<>>
    /\ p \in reading
    /\ requests < MaxRequests
    /\ RemoteTurn(p, "draw")
    /\ deck # <<>>
    /\ last_event' = [action |-> "draw_deck", pid |-> p, acted |-> TRUE]
    /\ UNCHANGED <<incoming, done>>
    /\ ApplyDrawDeck(p)

DrawDiscard(p) ==
    /\ running
    /\ steps < MaxSteps
    /\ steps' = steps + 1
    /\ incoming = <<>>
    /\ p \in reading
    /\ requests < MaxRequests
    /\ RemoteTurn(p, "draw")
    /\ discard_pile # <<>>
    /\ last_event' = [action |-> "draw_discard", pid |-> p, acted |-> TRUE]
    /\ UNCHANGED <<incoming, done>>
    /\ ApplyDrawDiscard(p)

\* the show request passes the dispatcher's test and reaches resolve_show
ShowDispatched(p) == RemoteTurn(p, "discard") /\ ShowAvail(p)

\* a show request of p; one the handler ignores changes last_event only, and the
\* model records those while the table is up
Show(p) ==
    /\ running
    /\ steps < MaxSteps
    /\ steps' = steps + 1
    /\ incoming = <<>>
    /\ state = "playing"
    /\ p \in reading
    /\ last_event' = [action |-> "show", pid |-> p,
                      acted |-> ShowDispatched(p) /\ ~ShowRejected(p)]
    /\ UNCHANGED <<state, max_points_out, netVars, seatVars, pileVars, turnVars, requests, deals, matches, clicks, nsent, round_start, running, done, turn_begin>>
    /\ IF ShowDispatched(p)
       THEN resolve_show(p)
       ELSE /\ sent' = <<>>
            /\ UNCHANGED <<matchVars, last_update>>

\* explicit exit: close the socket and enqueue a disconnect
Exit(p) ==
    /\ running
    /\ steps < MaxSteps
    /\ steps' = steps + 1
    /\ incoming = <<>>
    /\ p \in reading
    /\ p \in connections
    /\ Cardinality(Departed) < MaxDepartures
    /\ connections' = connections \ {p}
    /\ incoming' = Append(incoming, Disconnect(p))
    /\ last_event' = [action |-> "exit", pid |-> p, acted |-> TRUE]
    /\ sent' = <<>>
    /\ UNCHANGED <<state, max_points_out, reading, next_pid, seatVars, matchVars,
                   pileVars, turnVars, last_update, requests, deals, matches, clicks, nsent, round_start, running, done, turn_begin>>

\* faulty variant: the comprehension keeps nobody
WithoutEveryone(to, pid) == SelectSeq(to, LAMBDA q : q # pid /\ q = pid)

\* [p for p in turn_order if p != pid]
\* faulty variant: the player that left keeps the seat
WithoutNobody(to, pid) == to

Without(to, pid) == SelectSeq(to, LAMBDA q : q # pid)

\* faulty variant: the index is moved back whichever seat is vacated
IndexAfterLeaveAlways(cti, idx, to) ==
    LET c1 == IF cti > 0 THEN cti - 1 ELSE cti
    IN IF c1 >= Len(to) THEN 0 ELSE c1

\* faulty variant: the index is not moved back when an earlier seat is vacated
IndexAfterLeaveKeeps(cti, idx, to) == IF cti >= Len(to) THEN 0 ELSE cti

\* the turn index after pid, at 0-based position idx, left the turn order `to`
IndexAfterLeave(cti, idx, to) ==
    LET c1 == IF idx <= cti /\ cti > 0 THEN cti - 1 ELSE cti
    IN IF c1 >= Len(to) THEN 0 ELSE c1

\* faulty variant: whoever leaves during a match counts as a player of it
LeftTheMatchAnyone(gs, st, pid) == gs

\* game_started and pid in scores_total
LeftTheMatch(gs, st, pid) == gs /\ pid \in DOMAIN st

\* the disconnect event at the head of the queue
ProcessDisconnect ==
    /\ running
    /\ steps < MaxSteps
    /\ steps' = steps + 1
    /\ incoming # <<>>
    /\ get_nowait(incoming).event.action = "disconnect"
    /\ LET pid == get_nowait(incoming).event.pid IN
       /\ incoming' = get_nowait(incoming).rest
       /\ connections' = connections \ {pid}
       /\ last_event' = [action |-> "disconnect", pid |-> pid,
                         acted |-> LeftTheMatch(game_started, scores_total, pid)]
       /\ UNCHANGED <<state, max_points_out, reading, next_pid, pileVars, turn_phase,
                      show_available, turn_open_discard, scores_total, round_no,
                      round_over, round_history, requests, deals, matches, clicks, nsent, round_start, running, done>>
       /\ IF LeftTheMatch(game_started, scores_total, pid)
          THEN LET elim == eliminated \cup {pid}
                   remaining == ActivePlayersOf(scores_total, elim)
               IN /\ eliminated' = elim
                  /\ IF pid \in Range(turn_order)
                     THEN LET to == Without(turn_order, pid)
                              cti == IndexAfterLeave(current_turn_idx,
                                                     IndexOf(turn_order, pid), to)
                          IN /\ turn_order' = to
                             /\ current_turn_idx' = cti
                             /\ turn_begin' =
                                   IF to # <<>> /\ to[cti + 1] # TurnHolder
                                   THEN TurnBegun(to[cti + 1], discard_pile)
                                   ELSE turn_begin
                     ELSE UNCHANGED <<turn_order, current_turn_idx, turn_begin>>
                  /\ IF Len(remaining) = 1
                     THEN /\ match_over' = TRUE
                          /\ match_winner' = remaining[1]
                          /\ match_end_reason' = "player_exit"
                          /\ game_started' = FALSE
                     ELSE UNCHANGED <<match_over, match_winner, match_end_reason,
                                      game_started>>
                  /\ UNCHANGED seatVars
                  /\ last_update' = StateMsg'
                  /\ sent' = (IF Len(remaining) = 1
                              THEN match_end(connections', remaining[1], "player_exit",
                                             scores_total)
                              ELSE <<>>)
                              \o broadcast_state(connections', StateMsg')
          ELSE /\ player_order' = SyncOrder(player_order, connections')
               /\ dealer_pid' = SyncDealer(dealer_pid, player_order')
               /\ sent' = broadcast_lobby(connections', dealer_pid', player_order',
                                          max_points_out)
               /\ UNCHANGED <<eliminated, turn_order, current_turn_idx, match_over,
                              match_winner, match_end_reason, game_started, last_update,
                              turn_begin>>

(***************************************************************************)
(* The queue spelled out (SpecQ).  recv_loop puts every JSON line of its   *)
(* connection on the queue as it reads it, in the order of the stream;     *)
(* the main loop takes the head and runs the handler of its action to the  *)
(* end, sends included, before it takes the next.  n counts the requests   *)
(* of a connection.                                                        *)
(***************************************************************************)
\* a card name no hand holds
AbsentCard == "1S"

\* what a client may send: a discard of its first card or of a card it does not
\* hold, a draw, a show, an exit
RequestsOf(p) ==
    {[action |-> "discard", card |-> c] :
        c \in (IF HandOf(hands, p) # <<>> THEN {Head(hands[p])} ELSE {}) \cup {AbsentCard}}
    \cup {[action |-> a, card |-> None] : a \in {"draw_deck", "draw_discard", "show", "exit"}}

\* faulty variant: a line that does not parse ends the connection
PutLineOrDisconnect(q, e, valid) ==
    IF valid THEN Append(q, e) ELSE Append(q, Disconnect(e.pid))

\* the try block of recv_loop on one line that is not blank: the event is put on
\* the queue unless json.loads raised (valid is FALSE), and then the loop goes on
put_line(q, e, valid) == IF valid THEN Append(q, e) ELSE q

\* recv_loop of p reads a line that is not valid JSON
BadLine(p) ==
    /\ running
    /\ steps < MaxSteps
    /\ steps' = steps + 1
    /\ p \in reading
    /\ p \in connections
    /\ incoming' = put_line(incoming, [pid |-> p, action |-> None, card |-> None, n |-> 0],
                            FALSE)
    /\ last_event' = [action |-> "bad_line", pid |-> p, acted |-> FALSE]
    /\ sent' = <<>>
    /\ UNCHANGED <<state, max_points_out, connections, reading, next_pid, seatVars,
                   matchVars, pileVars, turnVars, last_update, requests, deals, matches,
                   clicks, turn_begin, nsent, round_start, running, done>>

\* recv_loop of p: incoming.put((pid, json.loads(line)))
Enqueue(p, r) ==
    /\ running
    /\ steps < MaxSteps
    /\ steps' = steps + 1
    /\ p \in reading
    /\ game_started
    /\ Len(incoming) < MaxQueue
    /\ SumOver(nsent, DOMAIN nsent) < MaxSends
    /\ incoming' = put_line(incoming, [pid |-> p, action |-> r.action, card |-> r.card,
                                       n |-> nsent[p] + 1], TRUE)
    /\ nsent' = [nsent EXCEPT ![p] = @ + 1]
    /\ UNCHANGED <<round_start, running>>
    /\ last_event' = [action |-> "enqueue", pid |-> p, acted |-> TRUE]
    /\ sent' = <<>>
    /\ UNCHANGED <<state, max_points_out, connections, reading, next_pid, seatVars,
                   matchVars, pileVars, turnVars, last_update, requests, deals, matches,
                   clicks, turn_begin, done>>

\* The lines of a client that parse as JSON but are no request of the game: an
\* object with an unknown action, an object without an action (data.get gives
\* None), and a value that is not an object (a number, a string, an array),
\* which recv_loop puts on the queue as it is; NotAnObject stands in the action
\* field of the queue entry for such a value.
NotAnObject == "not_an_object"

OtherLines ==
    {[action |-> a, card |-> None] : a \in {"dance", None, NotAnObject}}

\* the tests the dispatcher and the handler make before a request changes anything
Legal(e) ==
    \/ /\ e.action = "discard"
       /\ RemoteTurn(e.pid, "discard")
       /\ e.card \in Range(HandOf(hands, e.pid))
    \/ e.action = "draw_deck" /\ RemoteTurn(e.pid, "draw") /\ deck # <<>>
    \/ e.action = "draw_discard" /\ RemoteTurn(e.pid, "draw") /\ discard_pile # <<>>
    \/ e.action = "show" /\ ShowDispatched(e.pid) /\ ~ShowRejected(e.pid)

\* the loop takes a client's request from the head of the queue and handles it
HandleRequest ==
    /\ running
    /\ steps < MaxSteps
    /\ steps' = steps + 1
    /\ incoming # <<>>
    /\ get_nowait(incoming).event.action # "disconnect"
    /\ get_nowait(incoming).event.action # NotAnObject
    /\ LET e == get_nowait(incoming).event
           rest == get_nowait(incoming).rest
           p == e.pid
       IN /\ done' = Put(done, p, e.n)
          /\ last_event' = [action |-> e.action, pid |-> p,
                            acted |-> e.action = "exit" \/ Legal(e)]
          /\ IF e.action = "exit"
             THEN /\ connections' = connections \ {p}
                  /\ incoming' = Append(rest, Disconnect(p))
                  /\ sent' = <<>>
                  /\ UNCHANGED <<state, max_points_out, reading, next_pid, seatVars,
                                 matchVars, pileVars, turnVars, last_update, requests,
                                 deals, matches, clicks, turn_begin, nsent, round_start, running>>
             ELSE /\ incoming' = rest
                  /\ IF e.action = "discard" /\ Legal(e) THEN ApplyDiscard(p, e.card)
                     ELSE IF e.action = "draw_deck" /\ Legal(e) THEN ApplyDrawDeck(p)
                     ELSE IF e.action = "draw_discard" /\ Legal(e) THEN ApplyDrawDiscard(p)
                     ELSE IF e.action = "show" /\ ShowDispatched(p)
                     THEN /\ UNCHANGED <<state, max_points_out, connections, reading,
                                         next_pid, seatVars, pileVars, turnVars, requests,
                                         deals, matches, clicks, turn_begin, nsent, round_start, running>>
                          /\ resolve_show(p)
                     ELSE /\ sent' = <<>>
                          /\ UNCHANGED <<state, max_points_out, connections, reading,
                                         next_pid, seatVars, matchVars, pileVars, turnVars,
                                         last_update, requests, deals, matches, clicks,
                                         turn_begin, nsent, round_start, running>>

\* The loop takes from the head of the queue a value that is not an object:
\* `action = data.get("action")` raises AttributeError, nothing catches it, and
\* the main loop ends with the process.
HandleValue ==
    /\ running
    /\ steps < MaxSteps
    /\ steps' = steps + 1
    /\ incoming # <<>>
    /\ get_nowait(incoming).event.action = NotAnObject
    /\ incoming' = get_nowait(incoming).rest
    /\ done' = Put(done, get_nowait(incoming).event.pid, get_nowait(incoming).event.n)
    /\ running' = FALSE
    /\ last_event' = [action |-> "attribute_error", pid |-> get_nowait(incoming).event.pid,
                      acted |-> FALSE]
    /\ sent' = <<>>
    /\ UNCHANGED <<state, max_points_out, connections, reading, next_pid, seatVars,
                   matchVars, pileVars, turnVars, last_update, requests, deals, matches,
                   clicks, turn_begin, nsent, round_start>>

(***************************************************************************)
(* Main loop: the host's own mouse input on the table (STATE_PLAYING).     *)
(***************************************************************************)
\* turn == HOST_ID and phase == ph and not round_over
HostTurn(ph) ==
    /\ state = "playing"
    /\ ~round_over
    /\ TurnHolder = HOST_ID
    /\ PhaseOf(HOST_ID) = ph

HostDiscard(card) ==
    /\ running
    /\ steps < MaxSteps
    /\ steps' = steps + 1
    /\ incoming = <<>>
    /\ requests < MaxRequests
    /\ HostTurn("discard")
    /\ card \in Range(hands[HOST_ID])
    /\ last_event' = [action |-> "discard", pid |-> HOST_ID, acted |-> TRUE]
    /\ UNCHANGED <<incoming, done>>
    /\ ApplyDiscard(HOST_ID, card)

HostDrawDeck ==
    /\ running
    /\ steps < MaxSteps
    /\ steps' = steps + 1
    /\ incoming = <<>>
    /\ requests < MaxRequests
    /\ HostTurn("draw")
    /\ deck # <<>>
    /\ last_event' = [action |-> "draw_deck", pid |-> HOST_ID, acted |-> TRUE]
    /\ UNCHANGED <<incoming, done>>
    /\ ApplyDrawDeck(HOST_ID)

HostDrawDiscard ==
    /\ running
    /\ steps < MaxSteps
    /\ steps' = steps + 1
    /\ incoming = <<>>
    /\ requests < MaxRequests
    /\ HostTurn("draw")
    /\ discard_pile # <<>>
    /\ last_event' = [action |-> "draw_discard", pid |-> HOST_ID, acted |-> TRUE]
    /\ UNCHANGED <<incoming, done>>
    /\ ApplyDrawDiscard(HOST_ID)

\* the SHOW button's own test
HostShowEnabled ==
    /\ HostTurn("discard")
    /\ ShowAvail(HOST_ID)
    /\ hand_total(HOST_ID) <= SHOW_LIMIT

HostShow ==
    /\ running
    /\ steps < MaxSteps
    /\ steps' = steps + 1
    /\ incoming = <<>>
    /\ state = "playing"
    /\ last_event' = [action |-> "show", pid |-> HOST_ID,
                      acted |-> HostShowEnabled /\ ~ShowRejected(HOST_ID)]
    /\ UNCHANGED <<state, max_points_out, netVars, seatVars, pileVars, turnVars, requests, deals, matches, clicks, nsent, round_start, running, done, turn_begin>>
    /\ IF HostShowEnabled
       THEN resolve_show(HOST_ID)
       ELSE /\ sent' = <<>>
            /\ UNCHANGED <<matchVars, last_update>>

\* reset_to_lobby(), on the registry conns
reset_to_lobby(conns) ==
    /\ game_started' = FALSE
    /\ match_over' = FALSE
    /\ match_winner' = NoPid
    /\ match_end_reason' = None
    /\ round_over' = FALSE
    /\ turn_order' = <<>>
    /\ current_turn_idx' = 0
    /\ turn_phase' = EmptyMap
    /\ turn_open_discard' = EmptyMap
    /\ turn_begin' = NoTurn
    /\ player_order' = SyncOrder(player_order, conns)
    /\ dealer_pid' = SyncDealer(dealer_pid, player_order')
    /\ state' = "lobby"

\* "Close Game": close_game_by_host()
CloseGame ==
    /\ running
    /\ steps < MaxSteps
    /\ steps' = steps + 1
    /\ incoming = <<>>
    /\ state = "playing"
    /\ connections' = {}
    /\ reset_to_lobby({})
    /\ last_event' = [action |-> "close_game", pid |-> HOST_ID, acted |-> TRUE]
    /\ sent' = match_end(connections, NoPid, "host_closed", scores_total)
                \o broadcast_lobby({}, dealer_pid', player_order', max_points_out)
    /\ UNCHANGED <<max_points_out, reading, incoming, next_pid, scores_total, eliminated,
                   round_no, round_history, pileVars, show_available, last_update,
                   requests, deals, matches, clicks, nsent, round_start, running, done>>

\* "Back to Lobby" after the match ended
BackToLobby ==
    /\ running
    /\ steps < MaxSteps
    /\ steps' = steps + 1
    /\ incoming = <<>>
    /\ state = "playing"
    /\ match_over
    /\ reset_to_lobby(connections)
    /\ last_event' = [action |-> "back_to_lobby", pid |-> HOST_ID, acted |-> TRUE]
    /\ sent' = broadcast_lobby(connections, dealer_pid', player_order', max_points_out)
    /\ UNCHANGED <<max_points_out, netVars, scores_total, eliminated, round_no,
                   round_history, pileVars, show_available, last_update, requests, deals,
                   matches, clicks, nsent, round_start, running, done>>

(***************************************************************************)
(* Specification.                                                          *)
(***************************************************************************)
Pids == 2..(MaxRemote + 1)

\* the cards a discard request of p can name and have accepted
HandCards(p) == IF p \in DOMAIN hands THEN Range(hands[p]) ELSE {}

Next ==
    \/ \E val \in MaxPointsChoices : CreateLobby(val)
    \/ Accept
    \/ \E p \in Pids : ReaderEOF(p)
    \/ \E p \in {HOST_ID} \cup Pids : SetDealer(p)
    \/ \E idx \in 0..MaxRemote : MoveUp(idx)
    \/ \E idx \in 0..MaxRemote : MoveDown(idx)
    \/ \E k \in Shuffles : StartMatch(k)
    \/ \E k \in Shuffles : NextRound(k)
    \/ \E p \in Pids : \E card \in HandCards(p) : Discard(p, card)
    \/ \E p \in Pids : DrawDeck(p)
    \/ \E p \in Pids : DrawDiscard(p)
    \/ \E p \in Pids : Show(p)
    \/ \E p \in Pids : Exit(p)
    \/ ProcessDisconnect
    \/ \E card \in HandCards(HOST_ID) : HostDiscard(card)
    \/ HostDrawDeck
    \/ HostDrawDiscard
    \/ HostShow
    \/ CloseGame
    \/ BackToLobby

Spec == Init /\ [][Next]_vars

(***************************************************************************)
(* Full tables.  The shoe has 2 decks below 5 players, 3 decks for 5 or 6  *)
(* and 4 decks from 7 on.  SpecBig starts in the lobby the program is in   *)
(* after "Create Lobby" with the default threshold, n accepted connections *)
(* for an n of BigLobbies and a click on the "D" box of the last row, and  *)
(* follows the table from there; of the show requests it draws the ones    *)
(* the host accepts (Spec draws the ignored ones too).                     *)
(***************************************************************************)
BigLobbies == {3, 4, 6}

BigPids == 2..7

\* the lobby after "Create Lobby" with the default threshold and n accepted
\* connections, the dealer mark on dp
LobbyOf(n, dp) ==
        /\ state = "lobby"
        /\ max_points_out = DEFAULT_MAX_POINTS
        /\ connections = 2..(n + 1)
        /\ reading = 2..(n + 1)
        /\ incoming = <<>>
        /\ next_pid = n + 2
        /\ player_order = [i \in 1..(n + 1) |-> i]
        /\ dealer_pid = dp
        /\ game_started = FALSE
        /\ scores_total = [p \in {HOST_ID} |-> 0]
        /\ eliminated = {}
        /\ round_no = 0
        /\ round_over = FALSE
        /\ match_over = FALSE
        /\ match_winner = NoPid
        /\ match_end_reason = None
        /\ round_history = <<>>
        /\ deck = <<>>
        /\ discard_pile = <<>>
        /\ hands = [p \in {HOST_ID} |-> <<>>]
        /\ turn_order = <<>>
        /\ current_turn_idx = 0
        /\ turn_phase = EmptyMap
        /\ show_available = EmptyMap
        /\ turn_open_discard = EmptyMap
        /\ joker_card = None
        /\ joker_rank = None
        /\ last_update = NoUpdate
        /\ last_event = [action |-> "create_lobby", pid |-> HOST_ID, acted |-> TRUE]
        /\ requests = 0
        /\ deals = 0
        /\ matches = 0
        /\ clicks = 0
        /\ turn_begin = NoTurn
        /\ sent = <<>>
        /\ nsent = [p \in 2..(n + 1) |-> 0]
        /\ round_start = NoRound
        /\ running = TRUE
        /\ steps = 0
        /\ done = [p \in 2..(n + 1) |-> 0]

InitBig == \E n \in BigLobbies : LobbyOf(n, n + 1)

NextBig ==
    \/ \E p \in BigPids : ReaderEOF(p)
    \/ \E k \in Shuffles : StartMatch(k)
    \/ \E k \in Shuffles : NextRound(k)
    \/ \E p \in BigPids : \E card \in HandCards(p) : Discard(p, card)
    \/ \E p \in BigPids : DrawDeck(p)
    \/ \E p \in BigPids : DrawDiscard(p)
    \/ \E p \in BigPids : ShowDispatched(p) /\ ~ShowRejected(p) /\ Show(p)
    \/ \E p \in BigPids : Exit(p)
    \/ ProcessDisconnect
    \/ \E card \in HandCards(HOST_ID) : HostDiscard(card)
    \/ HostDrawDeck
    \/ HostDrawDiscard
    \/ HostShowEnabled /\ ~ShowRejected(HOST_ID) /\ HostShow

SpecBig == InitBig /\ [][NextBig]_vars

(***************************************************************************)
(* A match of the full lobby that a client joins late: the rounds are      *)
(* ended by shows at the first turn, a player may leave, and the accept    *)
(* thread takes one more connection while the match is under way.          *)
(***************************************************************************)
LatePids == 2..(MaxRemote + 2)

InitLate == \E dp \in 1..(MaxRemote + 1) : LobbyOf(MaxRemote, dp)

NextLate ==
    \/ \E p \in LatePids : ReaderEOF(p)
    \/ \E k \in Shuffles : StartMatch(k)
    \/ \E k \in Shuffles : NextRound(k)
    \/ \E p \in LatePids : ShowDispatched(p) /\ ~ShowRejected(p) /\ Show(p)
    \/ HostShowEnabled /\ ~ShowRejected(HOST_ID) /\ HostShow
    \/ ProcessDisconnect
    \/ JoinLate

SpecLate == InitLate /\ [][NextLate]_vars

(***************************************************************************)
(* A hand of one face.  random.shuffle can deal the first player of the    *)
(* round seven cards of one face under a top card of that face; SpecRun    *)
(* follows a table of three from such a deal.                              *)
(***************************************************************************)
InitRun == \E dp \in 1..(MaxRemote + 1) : LobbyOf(MaxRemote, dp)

NextRun ==
    \/ \E p \in Pids : ReaderEOF(p)
    \/ \E k \in RunShuffles : StartMatch(k)
    \/ \E p \in Pids : \E card \in HandCards(p) : Discard(p, card)
    \/ \E p \in Pids : DrawDeck(p)
    \/ \E p \in Pids : DrawDiscard(p)
    \/ \E p \in Pids : Show(p)
    \/ ProcessDisconnect
    \/ \E card \in HandCards(HOST_ID) : HostDiscard(card)
    \/ HostDrawDeck
    \/ HostDrawDiscard
    \/ HostShow

SpecRun == InitRun /\ [][NextRun]_vars

(***************************************************************************)
(* A late joiner that talks.  SpecJoin is SpecLate with the requests of    *)
(* the client that connected during the match on the queue: the reader of  *)
(* that client puts them there and the main loop dispatches them.          *)
(***************************************************************************)
LatePid == MaxRemote + 2

NextJoin ==
    \/ \E p \in LatePids : ReaderEOF(p)
    \/ \E k \in Shuffles : StartMatch(k)
    \/ \E k \in Shuffles : NextRound(k)
    \/ \E p \in LatePids : ShowDispatched(p) /\ ~ShowRejected(p) /\ Show(p)
    \/ HostShowEnabled /\ ~ShowRejected(HOST_ID) /\ HostShow
    \/ ProcessDisconnect
    \/ JoinLate
    \/ \E r \in RequestsOf(LatePid) : LatePid \in connections /\ Enqueue(LatePid, r)
    \/ HandleRequest

SpecJoin == InitLate /\ [][NextJoin]_vars

(***************************************************************************)
(* The queue spelled out: the clients' requests wait on the queue with the *)
(* disconnect events, and the loop handles whatever is at the head.        *)
(***************************************************************************)
InitQ == LobbyOf(MaxRemote, HOST_ID)

NextQ ==
    \/ \E p \in Pids : ReaderEOF(p)
    \/ \E k \in Shuffles : StartMatch(k)
    \/ \E p \in Pids : \E r \in RequestsOf(p) : Enqueue(p, r)
    \/ \E p \in Pids : BadLine(p)
    \/ HandleRequest
    \/ ProcessDisconnect
    \/ \E card \in HandCards(HOST_ID) : HostDiscard(card)
    \/ HostDrawDeck
    \/ HostDrawDiscard

SpecQ == InitQ /\ [][NextQ]_vars

(***************************************************************************)
(* Any line on the wire.  SpecWire is SpecQ with the clients' other lines: *)
(* whatever parses as JSON goes on the queue and the loop takes it.        *)
(***************************************************************************)
NextWire ==
    \/ \E p \in Pids : ReaderEOF(p)
    \/ \E k \in Shuffles : StartMatch(k)
    \/ \E p \in Pids : \E r \in RequestsOf(p) \cup OtherLines : Enqueue(p, r)
    \/ HandleRequest
    \/ HandleValue
    \/ ProcessDisconnect

SpecWire == InitQ /\ [][NextWire]_vars

(***************************************************************************)
(* Properties.                                                             *)
(***************************************************************************)
Players == {HOST_ID} \cup BigPids

\* the players the current round was dealt to: start_round gives each a turn_phase
\* entry, and a disconnect removes the player from turn_order only
Dealt == DOMAIN turn_phase

RoundDealt == state = "playing" /\ Dealt # {}

\* |shoe| + |discard pile| + the hand sizes of the players of S + 1 for the joker
CardCount(S) ==
    Len(deck) + Len(discard_pile) + SumOver([p \in S |-> Len(hands[p])], S) + 1

\* the length of the longest common prefix of two lists
CommonPrefix(s, t) ==
    LET m == IF Len(s) <= Len(t) THEN Len(s) ELSE Len(t)
    IN  IF SubSeq(s, 1, m) = SubSeq(t, 1, m) THEN m
        ELSE CHOOSE n \in 0..(m - 1) : /\ \A i \in 1..n : s[i] = t[i]
                                       /\ s[n + 1] # t[n + 1]

\* the multiset of the cards of s beyond what s and t have in common at their start
BeyondCommon(s, t) == SliceBag(s, CommonPrefix(s, t) + 1, Len(s))

\* the multiset of the cards of shoe and pile that are not in the same place in
\* (d, dp) and (d2, dp2), and of hand h
CardsInPlay(d, d2, dp, dp2, h) ==
    BeyondCommon(d, d2) (+) BeyondCommon(dp, dp2) (+) SeqBag(h)

\* one request of player p, from the network or from the host's own mouse
DiscardBy(p, card) == IF p = HOST_ID THEN HostDiscard(card) ELSE Discard(p, card)
DrawDeckBy(p) == IF p = HOST_ID THEN HostDrawDeck ELSE DrawDeck(p)
DrawDiscardBy(p) == IF p = HOST_ID THEN HostDrawDiscard ELSE DrawDiscard(p)
ShowBy(p) == IF p = HOST_ID THEN HostShow ELSE Show(p)

\* everything but the bookkeeping of the run
tableVars == <<state, max_points_out, netVars, seatVars, matchVars, pileVars, turnVars,
               last_update>>

\* the top of the discard pile, and whether `card` has the face of that top (joker
\* tokens have no face)
TopCard == IF discard_pile # <<>> THEN Last(discard_pile) ELSE None

SameFaceAsTop(card) ==
    /\ TopCard # None
    /\ TopCard \notin JokerTokens
    /\ card \notin JokerTokens
    /\ Face(card) = Face(TopCard)

\* the entry of round_history the latest show appended, and the hand totals it scored
LastRound == Last(round_history)

ShownTotal(q) == HandTotalOf(hands, q, joker_rank)

ShownOthers == DOMAIN LastRound.round_points \ {LastRound.show_pid}

(***************************************************************************)
(* C1 (as amended): card-count conservation.  In every state of a dealt    *)
(* round, after any discards, draws, shows, disconnects and exits, |shoe|  *)
(* + |discard pile| + the hand sizes of all players the round was dealt to *)
(* (those who have since left included) + 1 for the joker is numDecks * 54 *)
(* for the deck count of that round's table size.                          *)
(***************************************************************************)
C1_CardCountOfDealt ==
    RoundDealt =>
        CardCount(Dealt) = num_decks_for_players(Cardinality(Dealt)) * 54

\* C1 as stated: the same count over the players in the round's turn order.
C1_CardCountOfTurnOrder ==
    RoundDealt =>
        CardCount(Range(turn_order)) = num_decks_for_players(Cardinality(Dealt)) * 54

\* a seven-player round on four decks in which cards have moved and a player has left
C1_Witness ==
    /\ RoundDealt
    /\ Cardinality(Dealt) = 7
    /\ Range(turn_order) # Dealt
    /\ requests >= 2

(***************************************************************************)
(* C2: no card is created or destroyed by a turn action.  Every accepted   *)
(* discard, draw_deck and draw_discard, of a remote player or of the host, *)
(* leaves the multiset of shoe, discard pile, dealt hands and joker as it  *)
(* was: the joker and every other player's hand are untouched, and the     *)
(* cards of shoe, pile and actor's hand are the same multiset before and   *)
(* after (the cards shoe and pile keep at their start are left out of both *)
(* sides of the comparison).  Of shoe and pile only one changes, and the   *)
(* actor's hand does change.                                               *)
(***************************************************************************)
C2_TurnActionsMoveCards ==
    [][\A p \in Players :
          ((\E card \in HandCards(p) : DiscardBy(p, card)) \/ DrawDeckBy(p) \/ DrawDiscardBy(p))
          => /\ joker_card' = joker_card
             /\ DOMAIN hands' = DOMAIN hands
             /\ \A q \in DOMAIN hands \ {p} : hands'[q] = hands[q]
             /\ CardsInPlay(deck', deck, discard_pile', discard_pile, hands'[p])
                    = CardsInPlay(deck, deck', discard_pile, discard_pile', hands[p])
             /\ deck' = deck \/ discard_pile' = discard_pile
             /\ SeqBag(hands'[p]) # SeqBag(hands[p])]_vars

\* a draw_discard has just taken a card from below the top of the pile
C2_Witness ==
    /\ RoundDealt
    /\ last_event.action = "draw_discard"
    /\ last_event.acted
    /\ discard_pile # <<>>
    /\ Last(discard_pile) \notin Range(hands[last_event.pid])
    /\ CardCount(Dealt) = 2 * 54

(***************************************************************************)
(* C3: turn exclusivity.  Every snapshot broadcast while the match is in   *)
(* progress, after disconnects too, names as turn holder one member of the *)
(* turn order it lists, with phase "discard" or "draw"; and the turn index *)
(* of the table is a valid index of the turn order.                        *)
(***************************************************************************)
C3_TurnExclusivity ==
    /\ (last_update # NoUpdate /\ ~last_update.match_over) =>
          /\ last_update.turn \in Range(last_update.players)
          /\ last_update.turn_phase \in {"discard", "draw"}
    /\ (state = "playing" /\ ~match_over) =>
          /\ current_turn_idx \in 0..(Len(turn_order) - 1)
          /\ PhaseOf(TurnHolder) \in {"discard", "draw"}

\* the snapshot sent after the turn holder left a match that goes on
C3_Witness ==
    /\ last_event.action = "disconnect"
    /\ last_event.acted
    /\ last_update # NoUpdate
    /\ ~last_update.match_over
    /\ Len(last_update.players) >= 2
    /\ turn_begin.pid = last_update.turn
    /\ last_update.turn \notin DOMAIN turn_open_discard

(***************************************************************************)
(* C4: show legality.  A show request, of a remote player or of the host,  *)
(* changes nothing of the game state when the caller's hand total exceeds  *)
(* 8, or the caller is not the turn holder, or the caller's show flag is   *)
(* false, or the round is over.                                            *)
(***************************************************************************)
C4_ShowLegality ==
    [][\A p \in Players :
          (/\ ShowBy(p)
           /\ \/ hand_total(p) > 8
              \/ TurnHolder # p
              \/ ~ShowAvail(p)
              \/ round_over)
          => UNCHANGED tableVars]_vars

\* the turn holder, with the show flag set, has just asked to show a hand above 8
C4_Witness ==
    /\ last_event.action = "show"
    /\ ~last_event.acted
    /\ TurnHolder = last_event.pid
    /\ ShowAvail(last_event.pid)
    /\ PhaseOf(last_event.pid) = "discard"
    /\ ~round_over
    /\ hand_total(last_event.pid) > 8

(***************************************************************************)
(* C5: show win scoring.  When a show is resolved and no other player of   *)
(* the round has a hand total <= the show player's, the outcome is "win",  *)
(* the show player scores 0 and every other player the own hand total.     *)
(***************************************************************************)
C5_ShowWin ==
    (round_over /\ round_history # <<>>) =>
        ((\A q \in ShownOthers : ShownTotal(q) > ShownTotal(LastRound.show_pid)) =>
            /\ LastRound.outcome = "win"
            /\ LastRound.round_points[LastRound.show_pid] = 0
            /\ \A q \in ShownOthers : LastRound.round_points[q] = ShownTotal(q))

\* a win against two players who score different totals above the winner's
C5_Witness ==
    /\ round_over /\ round_history # <<>>
    /\ LastRound.outcome = "win"
    /\ ShownTotal(LastRound.show_pid) > 0
    /\ \E q, r \in ShownOthers :
          /\ LastRound.round_points[q] # LastRound.round_points[r]
          /\ LastRound.round_points[q] > ShownTotal(LastRound.show_pid)

(***************************************************************************)
(* C6: show penalty scoring.  When a show is resolved and another player's *)
(* hand total is <= the show player's, the outcome is "penalty", the show  *)
(* player scores 40, every other player at the minimum of the others       *)
(* scores 0 (all of them), and the remaining players their own totals.     *)
(***************************************************************************)
C6_ShowPenalty ==
    (round_over /\ round_history # <<>>) =>
        ((\E q \in ShownOthers : ShownTotal(q) <= ShownTotal(LastRound.show_pid)) =>
            /\ LastRound.outcome = "penalty"
            /\ LastRound.round_points[LastRound.show_pid] = 40
            /\ \A q \in ShownOthers :
                  LastRound.round_points[q] =
                      IF \A r \in ShownOthers : ShownTotal(q) <= ShownTotal(r)
                      THEN 0 ELSE ShownTotal(q))

\* a penalty with two players tied at the minimum and one above it
C6_Witness ==
    /\ round_over /\ round_history # <<>>
    /\ LastRound.outcome = "penalty"
    /\ \E q, r, t \in ShownOthers :
          /\ q # r
          /\ ShownTotal(q) = ShownTotal(r)
          /\ ShownTotal(q) > 0
          /\ LastRound.round_points[q] = 0
          /\ LastRound.round_points[r] = 0
          /\ ShownTotal(t) > ShownTotal(q)
          /\ LastRound.round_points[t] = ShownTotal(t)

(***************************************************************************)
(* C7: elimination threshold.  After a show is resolved a player is out on *)
(* points exactly when the cumulative score is > max_points_out: a score   *)
(* equal to the threshold does not eliminate, the threshold + 1 does.  (A  *)
(* player whose connection is gone is out for having left.)                *)
(***************************************************************************)
C7_EliminationThreshold ==
    round_over =>
        \A p \in DOMAIN scores_total :
            /\ scores_total[p] > max_points_out => p \in eliminated
            /\ (p \in eliminated /\ p \in {HOST_ID} \cup connections)
                  => scores_total[p] > max_points_out

\* one player stands at the threshold and plays on, another is out one point above it
C7_Witness ==
    /\ round_over
    /\ \E p, q \in DOMAIN scores_total :
          /\ scores_total[p] = max_points_out
          /\ p \notin eliminated
          /\ scores_total[q] = max_points_out + 1
          /\ q \in eliminated
          /\ q \in {HOST_ID} \cup connections

(***************************************************************************)
(* C8 (as stated): open-discard memo.  In every turn, the turns that begin *)
(* because a player disconnected included, when card X was on top of the   *)
(* discard pile as the turn began, a draw_discard after the holder's       *)
(* non-chain discard adds X to the hand and takes it from the place in the *)
(* pile where it lay as the turn began: never a card thrown in that same   *)
(* turn, which lies above that place.                                      *)
(***************************************************************************)
C8_OpenDiscardMemo ==
    [][\A p \in Players :
          (DrawDiscardBy(p) /\ turn_begin.top # None)
          => /\ turn_begin.pid = p
             /\ SeqBag(hands'[p]) = SeqBag(hands[p]) (+) SetToBag({turn_begin.top})
             /\ discard_pile' = PopAt(discard_pile, turn_begin.at - 1)]_vars

(***************************************************************************)
(* C9: discard-chain exception.  When the turn holder discards a card with *)
(* the face of the card on top of the discard pile, the turn passes to the *)
(* next player of the turn order at once and the discarder's phase stays   *)
(* "discard": the discarder is never in phase "draw" in that turn.         *)
(***************************************************************************)
C9_DiscardChain ==
    [][\A p \in Players : \A card \in HandCards(p) :
          (DiscardBy(p, card) /\ SameFaceAsTop(card))
          => /\ turn_order' = turn_order
             /\ current_turn_idx' = (current_turn_idx + 1) % Len(turn_order)
             /\ turn_phase'[p] = "discard"
             /\ turn_begin'.thrown = <<>>]_vars

\* a chain discard has just passed the turn to another player
C9_Witness ==
    /\ last_event.action = "discard"
    /\ last_event.acted
    /\ TurnHolder # last_event.pid
    /\ PhaseOf(last_event.pid) = "discard"
    /\ Len(discard_pile) >= 2
    /\ Face(Last(discard_pile)) = Face(discard_pile[Len(discard_pile) - 1])
    /\ Len(hands[last_event.pid]) < HAND_SIZE

(***************************************************************************)
(* C10 (as amended): a non-chain discard moves the discarded cards only.   *)
(* The remembered card stays on the discard pile, the memo is kept, the    *)
(* discarder's phase becomes "draw" and the turn does not advance: the     *)
(* card enters the hand only by a later draw_discard.                      *)
(***************************************************************************)
C10_DiscardThenDraw ==
    [][\A p \in Players : \A card \in HandCards(p) :
          (DiscardBy(p, card) /\ ~SameFaceAsTop(card))
          => /\ turn_phase'[p] = "draw"
             /\ turn_order' = turn_order
             /\ current_turn_idx' = current_turn_idx
             /\ turn_open_discard' = turn_open_discard
             /\ SubSeq(discard_pile', 1, Len(discard_pile)) = discard_pile
             /\ SeqBag(hands'[p]) (+) SeqBag(SubSeq(discard_pile', Len(discard_pile) + 1,
                                                    Len(discard_pile')))
                   = SeqBag(hands[p])]_vars

\* C10 as stated: the non-chain discard of a holder with a memo moves the remembered
\* card into the hand and passes the turn on, without a "draw" phase.
C10_AutoPickUp ==
    [][\A p \in Players : \A card \in HandCards(p) :
          (DiscardBy(p, card) /\ ~SameFaceAsTop(card) /\ p \in DOMAIN turn_open_discard)
          => /\ turn_open_discard[p].card \in Range(hands'[p])
             /\ current_turn_idx' = (current_turn_idx + 1) % Len(turn_order)
             /\ turn_phase'[p] # "draw"]_vars

\* after a non-chain discard the holder is in phase "draw", the remembered card still
\* where the memo says
C10_Witness ==
    /\ last_event.action = "discard"
    /\ last_event.acted
    /\ TurnHolder = last_event.pid
    /\ PhaseOf(TurnHolder) = "draw"
    /\ TurnHolder \in DOMAIN turn_open_discard
    /\ turn_open_discard[TurnHolder].idx < Len(discard_pile) - 1
    /\ discard_pile[turn_open_discard[TurnHolder].idx + 1] = turn_open_discard[TurnHolder].card
    /\ turn_open_discard[TurnHolder].card \notin Range(hands[TurnHolder])

(***************************************************************************)
(* C11, C12: requests the action loop ignores (SpecQ)                      *)
(***************************************************************************)

\* the game state the action loop keeps, and the snapshot last broadcast
gameVars == <<state, max_points_out, connections, seatVars, matchVars, pileVars, turnVars,
              last_update>>

\* the loop takes a request of kind `a` off the queue
Handling(a) == HandleRequest /\ Head(incoming).action = a

\* why the handler ignores a turn request of pid that needs phase ph
NotTheirMove(pid, ph) == pid # TurnHolder \/ PhaseOf(pid) # ph \/ round_over

\* C11: a discard request whose sender is not the turn holder, or whose phase is
\* not the discard phase, or that arrives when the round is over, or that names a
\* card the sender does not hold, changes no part of the game state and makes
\* the server send nothing.
C11_IllegalDiscardIgnored ==
    [][(/\ Handling("discard")
        /\ \/ NotTheirMove(Head(incoming).pid, "discard")
           \/ Head(incoming).card \notin Range(HandOf(hands, Head(incoming).pid)))
       => (UNCHANGED gameVars /\ sent' = <<>>)]_vars

\* The loop has just ignored a discard of the turn holder, in the discard phase of
\* a running round, that named a card the holder does not have; and a discard of a
\* player who holds the card but not the turn is on the queue.
C11_Witness ==
    /\ last_event.action = "discard" /\ ~last_event.acted
    /\ game_started /\ ~round_over
    /\ last_event.pid = TurnHolder
    /\ PhaseOf(TurnHolder) = "discard"
    /\ incoming # <<>>
    /\ Head(incoming).action = "discard"
    /\ Head(incoming).pid # TurnHolder
    /\ Head(incoming).card \in Range(HandOf(hands, Head(incoming).pid))

\* C12: a draw request (from the shoe or from the pile) whose sender is not the
\* turn holder, or whose phase is not the draw phase, or that arrives when the
\* round is over, or a draw from an empty shoe, changes no part of the game
\* state and makes the server send nothing; so of two draws of one player
\* handled one after the other, the second moves no card.
C12_StaleDrawIgnored ==
    [][/\ \A a \in {"draw_deck", "draw_discard"} :
            (/\ Handling(a)
             /\ \/ NotTheirMove(Head(incoming).pid, "draw")
                \/ a = "draw_deck" /\ deck = <<>>)
            => (UNCHANGED gameVars /\ sent' = <<>>)
       /\ (/\ HandleRequest
           /\ Head(incoming).action \in {"draw_deck", "draw_discard"}
           /\ last_event.action \in {"draw_deck", "draw_discard"}
           /\ last_event.pid = Head(incoming).pid)
          => (UNCHANGED gameVars /\ sent' = <<>>)]_vars

\* A player's discard and draw were applied and the same player's next draw, the
\* third request of that connection, has just been ignored: the hand is back at
\* its dealt size or below and the turn has moved on.
C12_Witness ==
    /\ last_event.action \in {"draw_deck", "draw_discard"} /\ ~last_event.acted
    /\ game_started /\ ~round_over
    /\ last_event.pid # HOST_ID
    /\ done[last_event.pid] = 3
    /\ requests = 2
    /\ \A q \in DOMAIN nsent \ {last_event.pid} : nsent[q] = 0
    /\ TurnHolder # last_event.pid
    /\ turn_begin.pid = TurnHolder

(***************************************************************************)
(* C13: what an accepted draw does (Spec)                                  *)
(***************************************************************************)

\* a draw of p, from the shoe or from the pile, is applied
DrawBy(p) == DrawDeckBy(p) \/ DrawDiscardBy(p)

\* the player whose turn it is after the step
NewHolder == turn_order'[current_turn_idx' + 1]

\* the step gives p one more card, puts p in the discard phase, moves the turn
\* index one seat on (cyclically) and gives the new holder the right to show and
\* a memo of the card now on top of the pile
DrawPassesTurn(p) ==
    /\ Len(hands'[p]) = Len(hands[p]) + 1
    /\ turn_phase'[p] = "discard"
    /\ current_turn_idx' = (current_turn_idx + 1) % Len(turn_order)
    /\ show_available'[NewHolder] = TRUE
    /\ discard_pile' # <<>>
    /\ turn_open_discard'[NewHolder].card = Last(discard_pile')

\* C13 as stated: an accepted draw has the effects of DrawPassesTurn and leaves the
\* drawer without the right to show.
C13_DrawerCannotShow ==
    [][\A p \in {HOST_ID} \cup Pids : DrawBy(p) => (DrawPassesTurn(p) /\ show_available'[p] = FALSE)]_vars

\* C13 (amended): an accepted draw has the effects of DrawPassesTurn, and leaves
\* the drawer without the right to show unless the drawer is alone in the turn
\* order: then the turn comes straight back and the drawer may show again.
C13_DrawEndsTurn ==
    [][\A p \in {HOST_ID} \cup Pids :
         DrawBy(p) => /\ DrawPassesTurn(p)
                      /\ show_available'[p] = (Len(turn_order) = 1)]_vars

\* The last player of a turn order of two or more has just drawn: the turn is back
\* at the first seat, whose player may show and has a memo of the top of the
\* pile, and the drawer is in the discard phase without the right to show.
C13_Witness ==
    /\ last_event.action \in {"draw_deck", "draw_discard"} /\ last_event.acted
    /\ game_started /\ ~round_over
    /\ Len(turn_order) >= 2
    /\ current_turn_idx = 0
    /\ last_event.pid = turn_order[Len(turn_order)]
    /\ ~show_available[last_event.pid]
    /\ turn_phase[last_event.pid] = "discard"
    /\ show_available[TurnHolder]
    /\ turn_open_discard[TurnHolder].card = Last(discard_pile)

(***************************************************************************)
(* C14: grouped discard (Spec)                                             *)
(***************************************************************************)

\* the cards the step put on the discard pile
Thrown == SubSeq(discard_pile', Len(discard_pile) + 1, Len(discard_pile'))

\* the step takes every card with the face of `card` out of the hand of p, puts
\* exactly those cards on the pile in hand order and leaves the other cards
GroupMoved(p, card) ==
    /\ Len(discard_pile') >= Len(discard_pile)
    /\ SubSeq(discard_pile', 1, Len(discard_pile)) = discard_pile
    /\ Thrown # <<>>
    /\ \A i \in 1..Len(Thrown) : Face(Thrown[i]) = Face(card)
    /\ \A i \in 1..Len(hands'[p]) : Face(hands'[p][i]) # Face(card)
    /\ Thrown = SelectSeq(hands[p], LAMBDA c : Face(c) = Face(card))
    /\ hands'[p] = SelectSeq(hands[p], LAMBDA c : Face(c) # Face(card))
    /\ \A q \in DOMAIN hands \ {p} : hands'[q] = hands[q]

\* C14 as stated: an accepted discard moves the group and leaves the discarder
\* without the right to show.
C14_DiscarderCannotShow ==
    [][\A p \in Players : \A card \in HandCards(p) :
          DiscardBy(p, card) => (GroupMoved(p, card) /\ show_available'[p] = FALSE)]_vars

\* C14 (amended): an accepted discard of card c removes every card with the face
\* of c from the discarder's hand, appends exactly those cards to the pile in hand
\* order and leaves the cards of other faces in the hand; the discarder is left
\* without the right to show unless the discard is a chain discard by the only
\* player of the turn order, whose next turn begins at once.
C14_GroupedDiscard ==
    [][\A p \in Players : \A card \in HandCards(p) :
          DiscardBy(p, card)
          => /\ GroupMoved(p, card)
             /\ show_available'[p] = (SameFaceAsTop(card) /\ Len(turn_order) = 1)]_vars

\* A discard has just moved two or more cards of one face to the pile while cards
\* of other faces stayed in the hand, and the discarder may not show.
C14_Witness ==
    /\ last_event.action = "discard" /\ last_event.acted
    /\ Len(turn_order) >= 2
    /\ Len(hands[last_event.pid]) \in 1..(HAND_SIZE - 2)
    /\ Len(discard_pile) >= 3
    /\ Face(Last(discard_pile)) = Face(discard_pile[Len(discard_pile) - 1])
    /\ Last(discard_pile) # discard_pile[Len(discard_pile) - 1]
    /\ \A i \in 1..Len(hands[last_event.pid]) :
           Face(hands[last_event.pid][i]) # Face(Last(discard_pile))
    /\ ~show_available[last_event.pid]

(***************************************************************************)
(* C15: the end of a match on points (Spec)                                *)
(***************************************************************************)

\* the players of the match that are not eliminated after the step
StillIn == {q \in DOMAIN scores_total' : q \notin eliminated'}

\* after the step the host's Next Round button deals a round
NextRoundCanStart ==
    /\ state' = "playing"
    /\ round_over' /\ ~match_over'
    /\ \E q \in Range(turn_order') : q \notin eliminated'
    /\ \E q \in Range(player_order') : q \in DOMAIN scores_total' /\ q \notin eliminated'

\* C15: when a show is resolved, the match ends with reason "points" exactly when
\* one player that is not eliminated remains, and that player is the winner; when
\* two or more remain the round is over, the match is not, and a next round can
\* be started.
C15_MatchEndOnPoints ==
    [][\A p \in Players :
          (ShowBy(p) /\ last_event'.acted)
          => /\ round_over'
             /\ (Cardinality(StillIn) = 1)
                   <=> (match_over' /\ match_end_reason' = "points")
             /\ Cardinality(StillIn) = 1
                   => (match_winner' \in StillIn /\ ~game_started')
             /\ Cardinality(StillIn) >= 2
                   => (~match_over' /\ game_started' /\ NextRoundCanStart)]_vars

\* A show has just ended a match of two or more players on points: every player
\* but the winner is eliminated, and the clients were told of a match_end with
\* reason "points".
C15_Witness ==
    /\ last_event.action = "show" /\ last_event.acted
    /\ round_over /\ match_over /\ ~game_started
    /\ match_end_reason = "points"
    /\ Cardinality(DOMAIN scores_total) >= 2
    /\ DOMAIN scores_total \ eliminated = {match_winner}
    /\ \E i \in 1..Len(sent) : sent[i].action = "match_end" /\ sent[i].reason = "points"

(***************************************************************************)
(* C16: a player of the match disconnects (Spec)                           *)
(***************************************************************************)

\* the loop takes the disconnect event of a player of the running match
PlayerLeaves(pid) ==
    /\ ProcessDisconnect
    /\ Head(incoming).pid = pid
    /\ game_started
    /\ pid \in DOMAIN scores_total

\* C16: when a player of the running match disconnects, the player is eliminated
\* and is no longer in the turn order (the other seats keep their order); if
\* exactly one player that is not eliminated remains, the match is over with
\* reason "player_exit" and that player as winner, and otherwise the match goes
\* on.
C16_DisconnectInMatch ==
    [][\A pid \in Pids :
          PlayerLeaves(pid)
          => /\ pid \in eliminated'
             /\ eliminated' = eliminated \cup {pid}
             /\ pid \notin Range(turn_order')
             /\ turn_order' = SelectSeq(turn_order, LAMBDA q : q # pid)
             /\ IF Cardinality(StillIn) = 1
                THEN /\ match_over' /\ ~game_started'
                     /\ match_end_reason' = "player_exit"
                     /\ match_winner' \in StillIn
                ELSE /\ ~match_over' /\ game_started'
                     /\ UNCHANGED <<match_winner, match_end_reason>>]_vars

\* In a match of three, one player is out on points and another has just left:
\* the leaver is eliminated and out of the turn order, the match is over with
\* reason "player_exit" in favour of the one player that is still in, and the
\* clients still connected were told so.
C16_Witness ==
    /\ last_event.action = "disconnect" /\ last_event.acted
    /\ Cardinality(DOMAIN scores_total) = 3
    /\ Cardinality(eliminated) = 2
    /\ last_event.pid \in eliminated
    /\ last_event.pid \notin Range(turn_order)
    /\ match_over /\ ~game_started
    /\ match_end_reason = "player_exit"
    /\ DOMAIN scores_total \ eliminated = {match_winner}
    /\ \E i \in 1..Len(sent) : sent[i].action = "match_end" /\ sent[i].reason = "player_exit"

(***************************************************************************)
(* C17: the host closes the game (Spec)                                    *)
(***************************************************************************)

\* the connections the step sent a match_end notice with the reason to
ToldMatchEnd(reason) ==
    {sent'[i].to : i \in {j \in 1..Len(sent') :
                             sent'[j].action = "match_end" /\ sent'[j].reason = reason}}

\* C17: whatever the state of the match, when the host closes the game every
\* connected client is sent match_end with reason "host_closed", every connection
\* is closed and forgotten, and the server is in the lobby with no match in
\* progress and an empty turn order.
C17_HostClose ==
    [][CloseGame
       => /\ ToldMatchEnd("host_closed") = connections
          /\ \A i \in 1..Len(sent') : sent'[i].action = "match_end"
          /\ connections' = {}
          /\ state' = "lobby"
          /\ ~game_started' /\ ~match_over'
          /\ turn_order' = <<>>]_vars

\* The host has just closed a game in the middle of a round in which a card was
\* played: both clients were told, no connection is left, and the lobby is shown.
C17_Witness ==
    /\ last_event.action = "close_game"
    /\ requests >= 1
    /\ {sent[i].to : i \in 1..Len(sent)} = Pids
    /\ \A i \in 1..Len(sent) : sent[i].action = "match_end" /\ sent[i].reason = "host_closed"
    /\ connections = {}
    /\ state = "lobby" /\ ~game_started /\ turn_order = <<>>

(***************************************************************************)
(* C18: what the messages show of the hands (Spec)                         *)
(***************************************************************************)

\* the fields of a snapshot
SnapshotFields ==
    {"discard_top", "turn", "turn_phase", "show_enabled", "pick_discard_card",
     "deck_count", "players", "hand_counts", "match_over", "match_winner",
     "round_history", "match_end_reason", "dealer_pid", "scores_total", "eliminated",
     "round_no", "joker_card", "joker_rank", "round_over", "max_points_out"}

\* a snapshot names three cards at most, all of them open on the table: the top of
\* the discard pile, the card the turn holder's memo names and the joker; of the
\* hands it gives the sizes
SnapshotHidesHands(st) ==
    /\ DOMAIN st = SnapshotFields
    /\ st.discard_top = TopCard
    /\ st.joker_card = joker_card
    /\ st.pick_discard_card =
          (IF TurnHolder \in DOMAIN turn_open_discard
           THEN turn_open_discard[TurnHolder].card ELSE None)
    /\ DOMAIN st.hand_counts = Range(turn_order)
    /\ \A q \in DOMAIN st.hand_counts : st.hand_counts[q] = Len(HandOf(hands, q))
    /\ st.players = turn_order
    /\ st.deck_count = Len(deck)

\* the message shows no hand but (in a hand message) the hand of the player it
\* is sent to
HidesOtherHands(m) ==
    /\ m.action \in {"welcome", "lobby", "start", "hand", "update", "round_end", "match_end"}
    /\ m.action = "hand" => (DOMAIN m = {"to", "action", "hand"} /\ m.hand = HandOf(hands, m.to))
    /\ m.action = "update" => (DOMAIN m = {"to", "action", "state"} /\ SnapshotHidesHands(m.state))
    /\ m.action = "start" => (DOMAIN m = {"to", "action", "rules"} /\ m.rules.hand_size = HAND_SIZE)
    /\ m.action = "lobby"
         => DOMAIN m = {"to", "action", "players", "config", "dealer_pid", "player_order"}
    /\ m.action = "match_end"
         => DOMAIN m = {"to", "action", "winner", "reason", "scores_total"}
    /\ m.action = "round_end" => round_over

\* C18: a hand message sent to the connection of player p holds the hand of p and
\* nothing else; no update, start or lobby message holds the cards of a hand, the
\* snapshots giving the sizes of the hands only; and while a round is in progress
\* no other kind of message that could hold them is sent.
C18_InformationHiding ==
    \A i \in 1..Len(sent) : HidesOtherHands(sent[i])

\* In a running round of three the latest step sent a client its own hand, which
\* differs from the hands of the two others, and sent every client a snapshot.
C18_Witness ==
    /\ game_started /\ ~round_over
    /\ Len(turn_order) = 3
    /\ \E i \in 1..Len(sent) :
          /\ sent[i].action = "hand"
          /\ sent[i].hand # <<>>
          /\ \A q \in Range(turn_order) \ {sent[i].to} : hands[q] # sent[i].hand
    /\ \A p \in connections :
          \E i \in 1..Len(sent) : sent[i].action = "update" /\ sent[i].to = p
    /\ Cardinality(connections) = 2

(***************************************************************************)
(* C19: who writes the state of the match (Spec)                           *)
(***************************************************************************)

\* a step of a thread other than the action loop: the accept thread takes a
\* connection, or the reader of a connection meets the end of its stream
AcceptOrReaderStep == Accept \/ \E p \in Pids : ReaderEOF(p)

\* C19: the seating order, the dealer, the hands, the shoe, the discard pile, the
\* turn order, the scores and the set of eliminated players are written by the
\* action loop only: a step of the accept thread or of a reader leaves them as
\* they are.
C19_SingleWriter ==
    [][AcceptOrReaderStep
       => UNCHANGED <<player_order, dealer_pid, hands, deck, discard_pile, turn_order,
                      scores_total, eliminated>>]_vars

(***************************************************************************)
(* C20: the order in which events are applied (SpecQ)                      *)
(***************************************************************************)

\* a step of the action loop that takes an event off the queue
Dequeue == HandleRequest \/ ProcessDisconnect

\* the step sent every client still connected the snapshot of the state it left
SnapshotSent ==
    \A p \in connections' :
       \E i \in 1..Len(sent') :
          sent'[i].to = p /\ sent'[i].action = "update" /\ sent'[i].state = StateMsg'

\* C20: the event a step of the action loop applies is the one at the head of the
\* queue, and the step takes that event alone off the queue (an exit puts the
\* disconnect of its sender at the tail); a request that changes the game is
\* applied together with its broadcast, before the next event is taken; the
\* requests of one connection are applied in the order the connection sent them;
\* and every other step that changes the queue adds one event at its tail.
C20_FifoOneAtATime ==
    [][/\ Dequeue
          => /\ last_event'.pid = Head(incoming).pid
             /\ last_event'.action = Head(incoming).action
             /\ \/ incoming' = Tail(incoming)
                \/ /\ Head(incoming).action = "exit"
                   /\ incoming' = Append(Tail(incoming), Disconnect(Head(incoming).pid))
             /\ Head(incoming).action # "disconnect"
                   => /\ Head(incoming).n = done[Head(incoming).pid] + 1
                      /\ done' = [done EXCEPT ![Head(incoming).pid] = Head(incoming).n]
             /\ (last_event'.acted /\ Head(incoming).action \notin {"exit", "disconnect"})
                   => SnapshotSent
       /\ (~Dequeue /\ incoming' # incoming)
          => /\ Len(incoming') = Len(incoming) + 1
             /\ SubSeq(incoming', 1, Len(incoming)) = incoming
             /\ UNCHANGED <<gameVars, done>>]_vars

\* Two requests of one connection and one of another have been taken off the
\* queue, the latest a moment ago with effect on the game and with a snapshot
\* to every client, while a further event waits on the queue.
C20_Witness ==
    /\ last_event.action \in {"discard", "draw_deck", "draw_discard", "show"}
    /\ last_event.acted
    /\ \E p \in DOMAIN done : \E q \in DOMAIN done \ {p} : done[p] >= 2 /\ done[q] >= 1
    /\ incoming # <<>>
    /\ \A p \in connections :
          \E i \in 1..Len(sent) : sent[i].to = p /\ sent[i].action = "update"

(***************************************************************************)
(* C21: the snapshots the clients receive (Spec)                           *)
(***************************************************************************)

\* the snapshots among the messages msgs that were sent to connection p, in order
UpdatesTo(msgs, p) ==
    LET ups == SelectSeq(msgs, LAMBDA m : m.to = p /\ m.action = "update")
    IN [i \in 1..Len(ups) |-> ups[i].state]

\* snapshot v follows snapshot u of the same match without going backwards
NotBackwards(u, v) ==
    /\ v.round_no >= u.round_no
    /\ Len(v.round_history) >= Len(u.round_history)
    /\ \A p \in DOMAIN u.scores_total :
          p \in DOMAIN v.scores_total /\ v.scores_total[p] >= u.scores_total[p]

\* C21: the clients connected after a step were sent the same sequence of
\* snapshots by it, the latest of them the snapshot of the state the step left;
\* and within one match a snapshot never shows a lower round number, a shorter
\* round history or a lower cumulative score than the snapshot before it.
C21_SnapshotOrdering ==
    [][/\ \A p, q \in connections' : UpdatesTo(sent', p) = UpdatesTo(sent', q)
       /\ \A p \in connections' :
             UpdatesTo(sent', p) \in {<<>>, <<last_update'>>}
       /\ last_update' # last_update
             => \A p \in connections' : UpdatesTo(sent', p) = <<last_update'>>
       /\ (last_update # NoUpdate /\ last_update' # last_update /\ matches' = matches)
             => NotBackwards(last_update, last_update')]_vars

\* Two clients connected since the match began have just been sent the same
\* snapshot, of a second round with a score on the board.
C21_Witness ==
    /\ Cardinality(connections) = 2
    /\ \A p \in connections : UpdatesTo(sent, p) = <<last_update>>
    /\ last_update.round_no = 2
    /\ Len(last_update.round_history) >= 1
    /\ \E p \in DOMAIN last_update.scores_total : last_update.scores_total[p] > 0

(***************************************************************************)
(* C22: lines that do not parse, and streams that end (SpecQ)              *)
(***************************************************************************)

\* C22: a line that is not valid JSON puts nothing on the queue, leaves the
\* connection open and its reader at work, and changes no part of the game
\* state; the end of the stream of a connection, or an error on its socket,
\* puts a disconnect event of that player at the tail of the queue.
C22_BadLineVersusLoss ==
    [][\A p \in Pids :
          /\ BadLine(p) => /\ incoming' = incoming
                           /\ p \in connections' /\ p \in reading'
                           /\ sent' = <<>>
                           /\ UNCHANGED <<gameVars, nsent, done>>
          /\ ReaderEOF(p) => /\ incoming' = Append(incoming, Disconnect(p))
                             /\ p \notin reading']_vars

\* In a running round the turn holder's reader has just dropped a line that does
\* not parse: the holder is still connected and read from, while the disconnect
\* of another player, whose stream has ended, waits on the queue.
C22_Witness ==
    /\ last_event.action = "bad_line"
    /\ game_started /\ ~round_over
    /\ last_event.pid = TurnHolder
    /\ last_event.pid \in connections \cap reading
    /\ \E q \in Pids \ {last_event.pid} :
          /\ q \notin reading
          /\ \E i \in 1..Len(incoming) : incoming[i] = Disconnect(q)

(***************************************************************************)
(* C23: the dealer of a round (SpecLate)                                   *)
(***************************************************************************)

\* the step deals a round
RoundDealtNow ==
    /\ last_event'.action \in {"start_match", "next_round"}
    /\ turn_order' # <<>>

\* the players of the match that are not eliminated, after the step
ActiveNow == {q \in DOMAIN scores_total' : q \notin eliminated'}

\* the i-th seat after the seat of d in the order po, wrapping (d is in po)
SeatAfter(d, po, i) ==
    po[(((CHOOSE j \in 1..Len(po) : po[j] = d) - 1 + i) % Len(po)) + 1]

\* the first player of act that follows d in the order po, wrapping
NextActiveAfter(d, po, act) ==
    SeatAfter(d, po, CHOOSE i \in 1..Len(po) :
                        /\ SeatAfter(d, po, i) \in act
                        /\ \A e \in 1..(i - 1) : SeatAfter(d, po, e) \notin act)

\* C23: the dealer of round 1 is the dealer the host marked in the lobby, or the
\* first active player of the configured order when that one is not active; the
\* dealer of every later round is the first player still active that follows the
\* dealer of the round before in the configured order, wrapping around; and the
\* dealer of a round that was dealt is an active player.
C23_DealerRotation ==
    [][RoundDealtNow
       => /\ dealer_pid' \in ActiveNow
          /\ round_no' = 1
                => dealer_pid' = (IF dealer_pid \in ActiveNow THEN dealer_pid
                                  ELSE ActiveIn(player_order', ActiveNow)[1])
          /\ round_no' > 1
                => /\ round_start.dealer \in Range(round_start.order)
                   /\ \E q \in Range(round_start.order) : q \in ActiveNow
                   /\ dealer_pid' = NextActiveAfter(round_start.dealer, round_start.order,
                                                    ActiveNow)]_vars

(***************************************************************************)
(* C24: the turn order of a round that was dealt (Spec)                    *)
(***************************************************************************)

\* C24: right after a round is dealt the turn order is the sequence of the
\* active players in the configured order, rotated so that it starts with the
\* player after the dealer and ends with the dealer; it holds every active
\* player once and no eliminated player; and the first turn is that of its
\* first player, in the discard phase, with the right to show and a memo of the
\* card the discard pile was seeded with.
C24_TurnOrderAfterDealer ==
    [][RoundDealtNow
       => LET act == ActiveIn(player_order', ActiveNow)
              n == Len(act)
          IN /\ Range(act) = ActiveNow
             /\ Len(turn_order') = n
             /\ \E di \in 1..n :
                   /\ act[di] = dealer_pid'
                   /\ \A i \in 1..n : turn_order'[i] = act[((di - 1 + i) % n) + 1]
             /\ turn_order'[n] = dealer_pid'
             /\ Range(turn_order') = ActiveNow
             /\ \A i, j \in 1..n : turn_order'[i] = turn_order'[j] => i = j
             /\ Range(turn_order') \cap eliminated' = {}
             /\ current_turn_idx' = 0
             /\ turn_phase'[turn_order'[1]] = "discard"
             /\ show_available'[turn_order'[1]] = TRUE
             /\ Len(discard_pile') = 1
             /\ turn_order'[1] \in DOMAIN turn_open_discard'
             /\ turn_open_discard'[turn_order'[1]].card = discard_pile'[1]]_vars

\* A round of three has just been dealt with the dealer in the middle seat of the
\* configured order: the turn order starts with the last seat and ends with the
\* dealer, and the first player may show.
C24_Witness ==
    /\ last_event.action \in {"start_match", "next_round"}
    /\ Len(turn_order) = 3
    /\ Len(player_order) = 3
    /\ dealer_pid = player_order[2]
    /\ turn_order = <<player_order[3], player_order[1], player_order[2]>>
    /\ current_turn_idx = 0
    /\ show_available[turn_order[1]]
    /\ turn_open_discard[turn_order[1]].card = Last(discard_pile)

(***************************************************************************)
(* C25: the sizes of a deal (SpecBig)                                      *)
(***************************************************************************)

\* C25: right after a round is dealt to n active players every player of the
\* turn order holds 7 cards, the discard pile holds 1 card, one card is set
\* aside as the joker, and the shoe holds 54 * d - 7 * n - 2 cards, d being 2 for
\* fewer than 5 players, 3 for 5 or 6 and 4 for 7 or 8.
C25_DealSizes ==
    [][RoundDealtNow
       => LET n == Cardinality(ActiveNow)
              d == IF n < 5 THEN 2 ELSE IF n \in 5..6 THEN 3 ELSE 4
          IN /\ n \in 1..8
             /\ Len(turn_order') = n
             /\ \A p \in Range(turn_order') : Len(hands'[p]) = 7
             /\ Len(discard_pile') = 1
             /\ joker_card' # None
             /\ Len(deck') = 54 * d - 7 * n - 2]_vars

\* A second round has just been dealt to the six players left of a match of
\* seven: three decks, 118 cards in the shoe.
C25_Witness ==
    /\ last_event.action = "next_round"
    /\ Cardinality(DOMAIN scores_total) = 7
    /\ Len(turn_order) = 6
    /\ \A p \in Range(turn_order) : Len(hands[p]) = 7
    /\ Len(discard_pile) = 1
    /\ joker_card # None
    /\ Len(deck) = 118

(***************************************************************************)
(* C26: the order of the messages that open a round (Spec)                 *)
(***************************************************************************)

\* the kinds of the messages among msgs that were sent to connection p, in order
KindsTo(msgs, p) ==
    LET mine == SelectSeq(msgs, LAMBDA m : m.to = p)
    IN [i \in 1..Len(mine) |-> mine[i].action]

\* C26: when a round is dealt, the first message a remote player of the round is
\* sent is the start notice, the player's hand comes after it and the snapshot
\* after the hand; no hand is sent before the start notice.
C26_RoundStartOrder ==
    [][RoundDealtNow
       => \A p \in Range(turn_order') \cap connections :
             LET kinds == KindsTo(sent', p)
             IN /\ kinds # <<>>
                /\ kinds[1] = "start"
                /\ \E i, j \in 1..Len(kinds) :
                      i < j /\ kinds[i] = "hand" /\ kinds[j] = "update"
                /\ \A i \in 1..Len(kinds) :
                      kinds[i] = "hand" => \E j \in 1..(i - 1) : kinds[j] = "start"]_vars

(***************************************************************************)
(* C27: a show is resolved once, a player is eliminated once (Spec)        *)
(***************************************************************************)

\* C27: a show request that arrives when the show of the round has been
\* resolved changes no score, adds no history entry, eliminates nobody and makes
\* the server send nothing; and a resolution adds one history entry, leaves the
\* score of every player eliminated before as it was, keeps those players
\* eliminated and reports as newly eliminated the players it eliminates and no
\* player eliminated before.
C27_ResolvedOnce ==
    [][\A p \in Players :
          /\ (ShowBy(p) /\ round_over)
                => /\ UNCHANGED <<matchVars, last_update>>
                   /\ sent' = <<>>
          /\ (ShowBy(p) /\ last_event'.acted)
                => /\ ~round_over /\ round_over'
                   /\ Len(round_history') = Len(round_history) + 1
                   /\ eliminated \subseteq eliminated'
                   /\ \A q \in eliminated \cap DOMAIN scores_total :
                         scores_total'[q] = scores_total[q]
                   /\ \A i \in 1..Len(sent') :
                         sent'[i].action = "round_end"
                         => /\ sent'[i].summary.newly_out \cap eliminated = {}
                            /\ sent'[i].summary.newly_out = eliminated' \ eliminated]_vars

\* The show of the second round was resolved with a player of the match already
\* eliminated, and a further show request has just been ignored: two history
\* entries for two rounds.
C27_Witness ==
    /\ last_event.action = "show" /\ ~last_event.acted
    /\ round_over
    /\ round_no = 2
    /\ Len(round_history) = 2
    /\ eliminated # {}
    /\ sent = <<>>

(***************************************************************************)
(* C28: the points a resolved show hands out (Spec)                        *)
(***************************************************************************)

\* the hand totals of the players of the round, before the step
HandTotals == [q \in Range(turn_order) |-> HandTotalOf(hands, q, joker_rank)]

\* what the step added to the cumulative scores, player by player
ScoreAdded == [q \in DOMAIN scores_total |-> scores_total'[q] - scores_total[q]]

\* the round points the step entered in the history
PointsEntered == Last(round_history').round_points

\* C28 as stated: the round points a resolved show adds to the cumulative scores
\* sum to the sum of the hand totals of the players of the round.
C28_ScoreConservation ==
    [][\A p \in Players :
          (ShowBy(p) /\ last_event'.acted)
          => /\ SumOver(ScoreAdded, DOMAIN ScoreAdded)
                  = SumOver(PointsEntered, DOMAIN PointsEntered)
             /\ SumOver(PointsEntered, DOMAIN PointsEntered)
                  = SumOver(HandTotals, DOMAIN HandTotals)]_vars

\* C28 (amended): the round points a resolved show adds to the cumulative
\* scores are the points entered in the history; when every other player of the
\* round holds more than the show player they sum to the hand totals of the other
\* players, the show player's own total not counted; otherwise they sum to the
\* penalty plus the hand totals of the other players that do not hold the lowest
\* total among the others.
C28_PointsDistributed ==
    [][\A p \in Players :
          (ShowBy(p) /\ last_event'.acted)
          => LET others == Range(turn_order) \ {p}
                 lowest == {q \in others : \A r \in others : HandTotals[q] <= HandTotals[r]}
             IN /\ DOMAIN PointsEntered = Range(turn_order)
                /\ SumOver(ScoreAdded, DOMAIN ScoreAdded)
                     = SumOver(PointsEntered, DOMAIN PointsEntered)
                /\ IF \A q \in others : HandTotals[q] > HandTotals[p]
                   THEN SumOver(PointsEntered, DOMAIN PointsEntered)
                          = SumOver(HandTotals, others)
                   ELSE SumOver(PointsEntered, DOMAIN PointsEntered)
                          = SHOW_PENALTY + SumOver(HandTotals, others \ lowest)]_vars

\* A show of a round of three has just been resolved with a penalty: the points
\* entered in the history are 40 for the show player, 0 for the lowest of the
\* others and a positive total for the third.
C28_Witness ==
    /\ last_event.action = "show" /\ last_event.acted
    /\ round_history # <<>>
    /\ Last(round_history).outcome = "penalty"
    /\ Cardinality(DOMAIN Last(round_history).round_points) = 3
    /\ Last(round_history).round_points[last_event.pid] = SHOW_PENALTY
    /\ \E q \in DOMAIN Last(round_history).round_points :
          q # last_event.pid /\ Last(round_history).round_points[q] > 0

(***************************************************************************)
(* C29: phase and show flag of the players that do not hold the turn       *)
(***************************************************************************)

\* C29: phase and show-eligibility belong to the turn holder only.  In every
\* state of a dealt round that is not over, every player of the turn order other
\* than the turn holder has phase "discard" and show flag false; and a player of
\* the turn order whose show flag is true is the turn holder, in phase
\* "discard", in a turn in which nothing has been thrown or drawn yet.
C29_HolderOnly ==
    (RoundDealt /\ ~round_over /\ turn_order # <<>>)
    => \A p \in Range(turn_order) :
          /\ p # TurnHolder => (PhaseOf(p) = "discard" /\ ~ShowAvail(p))
          /\ ShowAvail(p) => /\ p = TurnHolder
                             /\ PhaseOf(p) = "discard"
                             /\ turn_begin.pid = p
                             /\ turn_begin.thrown = <<>>
                             /\ turn_begin.at = Len(discard_pile)

\* A player in an earlier seat than the turn holder's has just left a round of
\* three that goes on; the holder, whose turn had just begun, still may show
\* and the player left beside them may not.
C29_Witness ==
    /\ RoundDealt /\ ~round_over /\ ~match_over
    /\ last_event.action = "disconnect" /\ last_event.acted
    /\ Len(turn_order) = 2
    /\ Len(round_start.order) = 3
    /\ last_event.pid \in Range(round_start.order)
    /\ requests > 0
    /\ ShowAvail(TurnHolder)
    /\ \E q \in Range(turn_order) : q # TurnHolder /\ ~ShowAvail(q)

(***************************************************************************)
(* C30: the disconnect events of a player that left by "exit"              *)
(***************************************************************************)

\* the positions of the queue that hold a disconnect event of p
DisconnectsOf(p) == {i \in DOMAIN incoming : incoming[i] = Disconnect(p)}

\* The main loop handles the last disconnect event of a player whose socket is
\* out of the registry and whose reader has ended: the registry entry went with
\* an earlier event of that player (an exit or a disconnect).
DuplicateDisconnect(p) ==
    /\ ProcessDisconnect
    /\ Head(incoming).pid = p
    /\ p \notin connections
    /\ p \notin reading
    /\ DisconnectsOf(p) = {1}

\* ... and the table no longer counts p: out of the turn order, and eliminated
\* if p has a score
AlreadyRemoved(p) ==
    /\ p \notin Range(turn_order)
    /\ p \in DOMAIN scores_total => p \in eliminated

\* C30 as stated: handling the second disconnect event of a player that left
\* leaves the whole game state as the first one left it.
C30_ExitEqualsDisconnect ==
    [][\A p \in Players :
          (DuplicateDisconnect(p) /\ AlreadyRemoved(p))
          => UNCHANGED <<seatVars, matchVars, pileVars, turnVars>>]_vars

\* The part of the statement that the code keeps: a duplicate disconnect event
\* of a player already removed changes neither the turn holder, the turn order,
\* the eliminated set nor the match result, nor the scores, the piles, the hands
\* or the phases; only the seating list and the dealer mark may change.
C30_DuplicateKeepsTable ==
    [][\A p \in Players :
          (DuplicateDisconnect(p) /\ AlreadyRemoved(p))
          => /\ UNCHANGED <<turn_order, current_turn_idx, eliminated>>
             /\ UNCHANGED <<match_over, match_winner, match_end_reason>>
             /\ UNCHANGED <<game_started, scores_total, round_over, round_no>>
             /\ UNCHANGED <<pileVars, turn_phase, show_available>>]_vars

(***************************************************************************)
(* C31: a joker token thrown on a joker token                              *)
(***************************************************************************)

\* C31 as stated: when a joker token is on top of the discard pile and the turn
\* holder discards a joker token, the chain exception applies: the turn passes to
\* the next player of the turn order at once and the discarder's phase stays
\* "discard", as for any two cards of equal face.
C31_JokerChain ==
    [][\A p \in Players : \A card \in HandCards(p) \cap JokerTokens :
          (DiscardBy(p, card) /\ TopCard \in JokerTokens)
          => /\ turn_order' = turn_order
             /\ current_turn_idx' = (current_turn_idx + 1) % Len(turn_order)
             /\ turn_phase'[p] = "discard"]_vars

(***************************************************************************)
(* C32: a player that does not hold the turn leaves the round              *)
(***************************************************************************)

\* the main loop handles the disconnect event of p, a player of the round in
\* progress
LeavesRound(p) ==
    /\ ProcessDisconnect
    /\ Head(incoming).pid = p
    /\ game_started /\ RoundDealt /\ ~round_over
    /\ p \in Range(turn_order)

\* the memo of pid, None when pid has none
MemoOf(tod, pid) == IF pid \in DOMAIN tod THEN tod[pid] ELSE None

\* C32: when a player of the round other than the turn holder disconnects, the
\* turn holder, the holder's phase, show flag and open-discard memo are
\* unchanged, whichever of the two sits first in the turn order.
C32_BystanderLeaves ==
    [][\A p \in Players :
          (LeavesRound(p) /\ p # TurnHolder)
          => /\ turn_order' = Without(turn_order, p)
             /\ NewHolder = TurnHolder
             /\ turn_phase'[TurnHolder] = turn_phase[TurnHolder]
             /\ show_available'[TurnHolder] = show_available[TurnHolder]
             /\ MemoOf(turn_open_discard', TurnHolder)
                  = MemoOf(turn_open_discard, TurnHolder)]_vars

\* A player seated after the turn holder has just left a round of three that
\* goes on, while the holder, in the middle of the turn, still has to draw.
C32_Witness ==
    /\ RoundDealt /\ ~round_over /\ ~match_over
    /\ last_event.action = "disconnect" /\ last_event.acted
    /\ Len(turn_order) = 2 /\ Len(round_start.order) = 3
    /\ last_event.pid \in Range(round_start.order)
    /\ PhaseOf(TurnHolder) = "draw"
    /\ turn_begin.pid = TurnHolder
    /\ turn_begin.thrown # <<>>
    /\ current_turn_idx = 0
    /\ TurnHolder \in DOMAIN turn_open_discard

(***************************************************************************)
(* C33: the turn holder leaves the round                                   *)
(***************************************************************************)

\* the player that follows p in the turn order, wrapping
FollowerOf(p) == turn_order[(IndexOf(turn_order, p) % Len(turn_order)) + 1]

\* C33 as stated: when the turn holder disconnects during a round and two or
\* more players remain, the turn passes to the player that followed them in the
\* turn order, wrapping, and that player starts a normal turn: phase "discard",
\* show flag true, open-discard memo on the current top of the discard pile.
C33_HolderLeaves ==
    [][\A p \in Players :
          (LeavesRound(p) /\ p = TurnHolder /\ Len(turn_order) >= 3)
          => /\ NewHolder = FollowerOf(p)
             /\ (NewHolder \in DOMAIN turn_phase' => turn_phase'[NewHolder] = "discard")
             /\ NewHolder \in DOMAIN show_available'
             /\ show_available'[NewHolder]
             /\ MemoOf(turn_open_discard', NewHolder)
                  = [idx |-> Len(discard_pile') - 1, card |-> Last(discard_pile')]]_vars

(***************************************************************************)
(* C34: the table after the match has ended                                *)
(***************************************************************************)

\* C34 as stated: once match_over is true, and for as long as the host neither
\* returns to the lobby nor starts a new match, the winner, the end reason, the
\* cumulative scores, the round history, the hands and the piles do not change:
\* no discard, draw or show is accepted, from a client or from the host.
C34_FinishedMatchFrozen ==
    [][(match_over /\ match_over' /\ state' = "playing")
          => /\ UNCHANGED <<match_winner, match_end_reason>>
             /\ UNCHANGED <<scores_total, round_history>>
             /\ UNCHANGED <<hands, deck, discard_pile>>]_vars

(***************************************************************************)
(* C35: what the turn holder can do                                        *)
(***************************************************************************)

\* the tests of the turn branches of the main loop, for the turn holder pid: a
\* discard needs a card of the hand, draw_deck a card in the shoe, draw_discard
\* a card on the pile, show the flag and a total within the limit
CanDiscard(pid) == PhaseOf(pid) = "discard" /\ HandOf(hands, pid) # <<>>
CanDrawDeck(pid) == PhaseOf(pid) = "draw" /\ deck # <<>>
CanDrawDiscard(pid) == PhaseOf(pid) = "draw" /\ discard_pile # <<>>
CanShow(pid) ==
    PhaseOf(pid) = "discard" /\ ShowAvail(pid) /\ hand_total(pid) <= SHOW_LIMIT

\* C35 as stated: while a match is in progress and the round is not over, the
\* turn holder has an action among discard, draw_deck, draw_discard and show
\* that the host would accept.
C35_NoStuckTurn ==
    (game_started /\ RoundDealt /\ ~round_over /\ turn_order # <<>>)
    => \/ CanDiscard(TurnHolder)
       \/ CanDrawDeck(TurnHolder)
       \/ CanDrawDiscard(TurnHolder)
       \/ CanShow(TurnHolder)

(***************************************************************************)
(* C36: the discard pile during a round                                    *)
(***************************************************************************)

\* a discard or a draw of p has just passed the turn through next_turn()
PassesTurn(p) ==
    \/ DrawBy(p)
    \/ \E card \in HandCards(p) : DiscardBy(p, card) /\ SameFaceAsTop(card)

\* C36: from the deal of a round on, the discard pile holds at least one card
\* after every accepted discard and draw, so a draw_discard finds a card in
\* phase "draw"; and every turn begun through next_turn() has an open-discard
\* memo, on the top of the pile.
C36_PileNeverEmpty ==
    /\ [](RoundDealt => discard_pile # <<>>)
    /\ [][\A p \in Players :
             PassesTurn(p)
             => /\ NewHolder \in DOMAIN turn_open_discard'
                /\ turn_open_discard'[NewHolder]
                     = [idx |-> Len(discard_pile') - 1, card |-> Last(discard_pile')]]_vars

\* A draw_discard has just taken the remembered card from under the cards thrown
\* in the turn, and the turn it passed on has its memo on the top that is left.
C36_Witness ==
    /\ RoundDealt /\ ~round_over
    /\ last_event.action = "draw_discard" /\ last_event.acted
    /\ Len(discard_pile) = 1
    /\ TurnHolder # last_event.pid
    /\ TurnHolder \in DOMAIN turn_open_discard
    /\ turn_open_discard[TurnHolder] = [idx |-> 0, card |-> Last(discard_pile)]

(***************************************************************************)
(* C37: somebody is left after every show                                  *)
(***************************************************************************)

\* the players of the match that are not eliminated, after the step
StillInAfter == DOMAIN scores_total' \ eliminated'

\* C37: every resolved show gives 0 round points to a player of the round, and
\* that player is not eliminated by it; a match that ends on points names as
\* winner the one player that is left; and while a match is in progress the set
\* of players not eliminated is never empty.
C37_SurvivorExists ==
    /\ [](game_started => DOMAIN scores_total \ eliminated # {})
    /\ [][\A p \in Players :
             (ShowBy(p) /\ last_event'.acted)
             => /\ \E q \in DOMAIN PointsEntered :
                      PointsEntered[q] = 0 /\ q \in StillInAfter
                /\ (match_over' /\ match_end_reason' = "points")
                      => StillInAfter = {match_winner'}]_vars

\* A show has just ended in a penalty that put the show player out and ended
\* the match on points; the winner is the other player, who held the lowest
\* total and scored 0 in the round.
C37_Witness ==
    /\ last_event.action = "show" /\ last_event.acted
    /\ match_over /\ match_end_reason = "points"
    /\ LastRound.outcome = "penalty"
    /\ last_event.pid \in eliminated
    /\ match_winner # last_event.pid
    /\ match_winner \notin eliminated
    /\ LastRound.round_points[match_winner] = 0

(***************************************************************************)
(* C38: the players that are out                                           *)
(***************************************************************************)

\* the host has just dealt a further round of the match
NextRoundDealt == last_event'.action = "next_round" /\ turn_order' # <<>>

\* C38: while a round is in progress no member of the turn order is in the
\* eliminated set; and a further round of the match is dealt to none of the
\* players eliminated so far, on points or by leaving: they are not in its turn
\* order, get no phase and no new hand, and the first turn is not theirs.
C38_EliminatedDoNotPlay ==
    /\ []((RoundDealt /\ ~round_over) => Range(turn_order) \cap eliminated = {})
    /\ [][NextRoundDealt
             => /\ eliminated' = eliminated
                /\ \A q \in eliminated :
                      /\ q \notin Range(turn_order')
                      /\ q \notin DOMAIN turn_phase'
                      /\ q \notin DOMAIN show_available'
                      /\ HandOf(hands', q) = HandOf(hands, q)
                      /\ NewHolder # q]_vars

\* The second round of a match of three has just been dealt to two players: the
\* third, out on points and still connected, keeps the hand of the first round.
C38_Witness ==
    /\ last_event.action = "next_round"
    /\ ~round_over
    /\ Len(turn_order) = 2
    /\ \E q \in eliminated :
          /\ q \in Range(player_order)
          /\ q \in {HOST_ID} \cup connections
          /\ scores_total[q] > max_points_out
          /\ q \notin Range(turn_order)
          /\ HandOf(hands, q) # <<>>

(***************************************************************************)
(* C39: a client that connects while a match is under way (SpecJoin)       *)
(***************************************************************************)

\* the main loop takes an event of the late joiner from the queue
LateDisconnect == ProcessDisconnect /\ Head(incoming).pid = LatePid
LateRequest == HandleRequest /\ Head(incoming).pid = LatePid

TakesLine == HandleRequest \/ HandleValue

\* C40 as stated: whatever line that parses as JSON the loop takes from the
\* queue, an object with an unknown or missing action or a value that is not an
\* object, the loop ignores it or applies it and keeps running.
C40_LoopKeepsRunning == [][TakesLine => running']_vars

====
